---- MODULE Spec2Model ----
(***************************************************************************)
(* State-machine model of the Site-Estoque client (React + axios).         *)
(*                                                                         *)
(* The client is a set of independent components; each gets its own        *)
(* specification over the shared variable list:                            *)
(*   SpecAuth    api/axiosconfig.ts interceptor, api/auth.ts, AuthContext  *)
(*   SpecWizard  add-product wizard (SearchBar) with HomePage.onAddCard    *)
(*   SpecViews   list views: HomePage, Dashboard, StockTransactions,       *)
(*               ActivityLog (loads in flight, responses in any order)     *)
(*   SpecEdit    item editors (ManageProduct.handleSave,                   *)
(*               HomePage.handleUpdateProduct)                             *)
(*   SpecTx      create-transaction dialog of the Stock Transactions page  *)
(* Texts are sequences over a two-letter alphabet (SP = blank, CH = any    *)
(* other character) so that trim() and length are computed, not assumed.   *)
(***************************************************************************)
EXTENDS Integers, Sequences, FiniteSets, TLC

\* ------------------------------------------------------------------ bounds
MaxTok == 2        \* distinct token values the server can issue (0 = absent)
MaxDepth == 3      \* nested requests in flight inside one interceptor chain

\* ------------------------------------------------------------- strings
SP == 0
CH == 1

RECURSIVE TrimStart(_)
TrimStart(s) == IF s = << >> THEN s
                ELSE IF Head(s) = SP THEN TrimStart(Tail(s)) ELSE s

RECURSIVE TrimEnd(_)
TrimEnd(s) == IF s = << >> THEN s
              ELSE IF s[Len(s)] = SP THEN TrimEnd(SubSeq(s, 1, Len(s) - 1)) ELSE s

\* String.prototype.trim
Trim(s) == TrimEnd(TrimStart(s))

\* JavaScript truthiness of a string
Truthy(s) == s # << >>

\* a string that new URL() accepts is written with the letter UC
UC == 2

\* absent (undefined) members of a request body
UndefNum == -99
UndefStr == <<9>>

VARIABLES
  \* ---- api/auth.ts, api/axiosconfig.ts, contexts/AuthContext
  storage,        \* localStorage: token, refreshToken (0 = absent), userId, userEmail, username
  authHeader,     \* apiClient.defaults.headers.common['Authorization'] (0 = absent)
  calls,          \* chain of requests in flight through apiClient, innermost last
  refreshPosts,   \* POST /api/auth/refresh sent while handling the current request
  completed,      \* how the last request issued by a caller was settled
  ctxUser,        \* AuthProvider: user state (TRUE = a user object, FALSE = null)
  ctxLoading,     \* AuthProvider: loading state
  \* ---- the request that has just left the client (method, body)
  wire,
  \* ---- SearchBar add-product wizard
  isDialogOpen, activeStep, formData, formErrors,
  qrScannerOpen, qrCodeResult, qrProcessing, qrAlert,
  wizPending,     \* handleSubmit calls awaiting their create request
  settled,        \* outcome of the create request whose handleSubmit continued in the last step
  \* ---- HomePage list
  homeLoading, homeProducts, homeFetches,
  \* ---- router: the page that is mounted
  page,
  loadEvent,      \* the load that settled in the last step: view, outcome, response
  \* ---- Dashboard
  dashLoading, dashError, dashData, dashLoads,
  \* ---- StockTransactions list
  stLoading, stError, stRows, stTotalPages, stFilterType, stFilterItem, stPage,
  stLoads,        \* loadData calls in flight: the query each was issued for
  stLatestOk,     \* the load issued last has been answered successfully
  \* ---- ActivityLog
  alLoading, alError, alRows, alTotalCount, alFilterType, alPage, alLoads, alLatestOk,
  \* ---- StockTransactions create dialog
  createDialogOpen, txForm, txSuccess, txPending,
  \* ---- StockTransactions edit dialog
  editDialogOpen, selectedTransaction, editFormData,
  tePending,      \* handleUpdateTransaction calls awaiting their PUT
  \* ---- the records the REST API keeps
  srv,
  \* ---- ExportData page and the export buttons of the Dashboard
  backendStatus, exLoading, exError, exSuccess,
  exProbing,      \* loadData (mount effect) awaits Promise.allSettled
  exPending,      \* export calls awaiting exportService: type and calling page
  downloads,      \* files handed to exportService.downloadBlob, oldest first
  today,          \* the date new Date() reports
  exEvent,        \* the export call that ended in the last step
  options,        \* the export filters: lowStockOnly
  \* ---- dashboardService: the product list and the last aggregate call
  agg,
  \* ---- react-router: the location the routes of App.tsx are matched against
  route,
  \* ---- QRScanner component (mounted by SearchBar for as long as the page is)
  scanner,
  \* ---- ManageProduct page
  mpLoading, mpProduct, mpForm, mpEditing, mpSaving, mpError, mpSuccess,
  mpPending,      \* the request ManageProduct awaits: none, fetch, update, reload
  mpTimers,       \* setTimeout(() => setSuccess(false), 3000) not yet fired
  \* ---- HomePage manage-product dialog
  manageDialogOpen, selectedProductId, hmForm, updateLoading, updateError, updateSuccess,
  hmPending,      \* handleUpdateProduct awaits: none, update, fetch
  hmTimers        \* setTimeout(handleCloseManageDialog, 1500) not yet fired, oldest
                  \* first: the product whose dialog was shown when each was armed

authVars == <<storage, authHeader, calls, refreshPosts, completed, ctxUser, ctxLoading>>

wizVars == <<isDialogOpen, activeStep, formData, formErrors,
             qrScannerOpen, qrCodeResult, qrProcessing, qrAlert, wizPending, settled>>

homeVars == <<homeLoading, homeProducts, homeFetches>>

dashVars == <<dashLoading, dashError, dashData, dashLoads>>

stVars == <<stLoading, stError, stRows, stTotalPages, stFilterType, stFilterItem, stPage,
            stLoads, stLatestOk>>

alVars == <<alLoading, alError, alRows, alTotalCount, alFilterType, alPage, alLoads,
            alLatestOk>>

teVars == <<editDialogOpen, selectedTransaction, editFormData, tePending>>

txVars == <<createDialogOpen, txForm, txSuccess, txPending, teVars>>

mpVars == <<mpLoading, mpProduct, mpForm, mpEditing, mpSaving, mpError, mpSuccess,
            mpPending, mpTimers>>

hmVars == <<manageDialogOpen, selectedProductId, hmForm, updateLoading, updateError,
            updateSuccess, hmPending, hmTimers>>

exVars == <<backendStatus, exLoading, exError, exSuccess, exProbing, exPending,
           downloads, today, exEvent, options>>

vars == <<authVars, wire, wizVars, homeVars, page, loadEvent, dashVars, stVars, alVars,
          txVars, mpVars, hmVars, srv, exVars, agg, route, scanner>>

\* what the actions of one component leave alone
outsideAuth_route == <<wire, wizVars, homeVars, page, loadEvent, dashVars, stVars, alVars,
                       txVars, mpVars, hmVars, srv, exVars, agg, scanner>>
outsideAuth == <<outsideAuth_route, route>>
outsideWizard == <<authVars, page, loadEvent, dashVars, stVars, alVars, txVars, mpVars,
                   hmVars, srv, exVars, agg, route, scanner>>
outsideViews == <<authVars, wire, wizVars, txVars, mpVars, hmVars, srv, exVars, agg, route,
                  scanner>>
outsideTx == <<authVars, wizVars, homeVars, page, dashVars, alVars, mpVars, hmVars, srv, exVars,
               agg, route, scanner>>
outsideEdit == <<authVars, wizVars, page, loadEvent, dashVars, stVars, alVars, txVars, srv,
                exVars, agg, route, scanner>>
outsideAgg == <<authVars, wire, wizVars, homeVars, page, loadEvent, dashVars, stVars, alVars,
                txVars, mpVars, hmVars, srv, exVars, route, scanner>>
outsideScanner == <<authVars, wire, wizVars, homeVars, page, loadEvent, dashVars, stVars,
                   alVars, txVars, mpVars, hmVars, srv, exVars, agg, route>>
outsideExport == <<authVars, wire, wizVars, homeVars, page, loadEvent, dashVars, stVars,
                  alVars, txVars, mpVars, hmVars, srv, agg, route, scanner>>

\* ======================================================================
\*  Authentication: api/auth.ts, api/axiosconfig.ts, AuthContext, App.tsx
\* ======================================================================
Tokens == 1..MaxTok

LoggedOutStorage == [token |-> 0, refreshToken |-> 0, userId |-> FALSE,
                     userEmail |-> FALSE, username |-> FALSE]

LoggedInStorage(t, r) == [token |-> t, refreshToken |-> r, userId |-> TRUE,
                          userEmail |-> TRUE, username |-> TRUE]

\* auth.ts: isAuthenticated
isAuthenticated == storage.token # 0 /\ storage.userId

\* auth.ts: getCurrentUser (TRUE = a user object, FALSE = null)
getCurrentUser == storage.userId /\ storage.userEmail /\ storage.username

\* AuthProvider value.isAuth
isAuth == ctxUser

\* App.tsx ProtectedRoute: what is rendered
ProtectedRoute == IF ctxLoading THEN "loading"
                  ELSE IF isAuth THEN "children" ELSE "navigate_signin"

NoCompleted == [result |-> "none", lastStatus |-> 0, refreshes |-> 0,
                resends |-> 0, refreshResult |-> "none"]

\* auth: the Authorization header of the request config, taken from
\* apiClient.defaults when the request is sent (0 = absent)
NewFrame(kind) == [kind |-> kind, retry |-> FALSE, pc |-> "sent", lastStatus |-> 0,
                   data |-> 0, refreshes |-> 0, resends |-> 0, refreshResult |-> "none",
                   auth |-> authHeader]

\* apiClient(originalRequest): axios merges apiClient.defaults with the
\* config it is given, and a header the config already carries wins over
\* the one of the defaults. originalRequest is error.config, whose headers
\* hold the Authorization value the request was sent with.
ResentAuthorization(configHeader, defaultHeader) ==
  IF configHeader # 0 THEN configHeader ELSE defaultHeader

Top == calls[Len(calls)]

SetTop(f) == [calls EXCEPT ![Len(calls)] = f]

ShouldRefresh_NoRetryFlag(status, f) == status = 401

\* axiosconfig.ts line 19: the guard of the refresh branch
ShouldRefresh(status, f) == status = 401 /\ ~f.retry

\* A caller (a page, rendered once the auth check is over) sends a request
\* through apiClient.
SendRequest ==
  /\ UNCHANGED outsideAuth
  /\ ~ctxLoading
  /\ calls = << >>
  /\ calls' = <<NewFrame("api")>>
  /\ refreshPosts' = 0
  /\ completed' = NoCompleted
  /\ UNCHANGED <<storage, authHeader, ctxUser, ctxLoading>>

\* The server answers the innermost request in flight; the response
\* interceptor runs up to its first await.
\*   status 200: success handler, the response is returned
\*   otherwise : error handler (401 -> refresh once, else reject)
\* data is response.data.access_token (0 = none), meaningful for refresh.
Respond(status, data) ==
  /\ UNCHANGED outsideAuth
  /\ calls # << >>
  /\ Top.pc = "sent"
  /\ LET f == [Top EXCEPT !.lastStatus = status] IN
     IF status = 200
     THEN /\ calls' = SetTop([f EXCEPT !.pc = "resolved", !.data = data])
          /\ UNCHANGED refreshPosts
     ELSE IF ShouldRefresh(status, f)
     THEN LET g == [f EXCEPT !.retry = TRUE, !.refreshes = @ + 1] IN
          IF storage.refreshToken = 0
          THEN \* refreshAccessToken returns false at once: reject
               /\ calls' = SetTop([g EXCEPT !.pc = "rejected", !.refreshResult = "failed"])
               /\ UNCHANGED refreshPosts
          ELSE \* refreshAccessToken posts /api/auth/refresh through apiClient
               /\ Len(calls) < MaxDepth
               /\ calls' = Append(SetTop([g EXCEPT !.pc = "awaitRefresh"]), NewFrame("refresh"))
               /\ refreshPosts' = refreshPosts + 1
     ELSE /\ calls' = SetTop([f EXCEPT !.pc = "rejected"])
          /\ UNCHANGED refreshPosts
  /\ UNCHANGED <<storage, authHeader, completed, ctxUser, ctxLoading>>

LogoutStorage_KeepsRefreshToken == [LoggedOutStorage EXCEPT !.refreshToken = 1]

\* auth.ts logout: the effect on localStorage and on the default header
LogoutStorage == LoggedOutStorage

\* The refresh POST has settled: refreshAccessToken continues after its
\* await, returns to the interceptor of the request that started it, which
\* re-sends that request or rejects it.
RefreshReturn(newRefresh) ==
  /\ UNCHANGED outsideAuth
  /\ Len(calls) >= 2
  /\ Top.kind = "refresh"
  /\ Top.pc \in {"resolved", "rejected"}
  /\ LET child  == Top
         rest   == SubSeq(calls, 1, Len(calls) - 1)
         parent == rest[Len(rest)]
     IN
     IF child.pc = "resolved" /\ child.data # 0
     THEN \* tokens stored, header updated, returns true: retry the request
          /\ storage' = [storage EXCEPT !.token = child.data, !.refreshToken = newRefresh]
          /\ authHeader' = child.data
          /\ calls' = [rest EXCEPT ![Len(rest)] =
                         [parent EXCEPT !.pc = "sent", !.resends = @ + 1,
                                        !.refreshResult = "ok",
                                        !.auth = ResentAuthorization(@, child.data)]]
     ELSE IF child.pc = "resolved"
     THEN \* no access token in the response: returns false
          /\ calls' = [rest EXCEPT ![Len(rest)] =
                         [parent EXCEPT !.pc = "rejected", !.refreshResult = "failed"]]
          /\ UNCHANGED <<storage, authHeader>>
     ELSE \* catch: logout(), returns false
          /\ storage' = LogoutStorage
          /\ authHeader' = 0
          /\ calls' = [rest EXCEPT ![Len(rest)] =
                         [parent EXCEPT !.pc = "rejected", !.refreshResult = "failed"]]
  /\ UNCHANGED <<refreshPosts, completed, ctxUser, ctxLoading>>

\* The promise of the request issued by the caller settles.
Deliver ==
  /\ UNCHANGED outsideAuth
  /\ Len(calls) = 1
  /\ Top.pc \in {"resolved", "rejected"}
  /\ completed' = [result |-> Top.pc, lastStatus |-> Top.lastStatus,
                   refreshes |-> Top.refreshes, resends |-> Top.resends,
                   refreshResult |-> Top.refreshResult]
  /\ calls' = << >>
  /\ UNCHANGED <<storage, authHeader, refreshPosts, ctxUser, ctxLoading>>

\* AuthProvider mount effect: checkAuth
CheckAuth ==
  /\ UNCHANGED outsideAuth
  /\ ctxLoading
  /\ ctxUser' = IF isAuthenticated THEN getCurrentUser ELSE ctxUser
  /\ ctxLoading' = FALSE
  /\ UNCHANGED <<storage, authHeader, calls, refreshPosts, completed>>

\* AuthProvider handleLogout
HandleLogout ==
  /\ UNCHANGED outsideAuth
  /\ ~ctxLoading
  /\ storage' = LogoutStorage
  /\ authHeader' = 0
  /\ ctxUser' = FALSE
  /\ UNCHANGED <<calls, refreshPosts, completed, ctxLoading>>

\* auth.ts login with a successful response that carries tokens and a user
Login(t, r) ==
  /\ UNCHANGED outsideAuth
  /\ calls = << >>
  /\ storage' = LoggedInStorage(t, r)
  /\ authHeader' = t
  /\ completed' = NoCompleted
  /\ UNCHANGED <<calls, refreshPosts, ctxUser, ctxLoading>>

\* The page is loaded again: modules are re-evaluated (auth.ts lines
\* 130-133 initialise the header from the stored token), AuthProvider is
\* constructed anew, requests in flight are dropped.
Reload ==
  /\ UNCHANGED outsideAuth
  /\ ~ctxLoading
  /\ authHeader' = storage.token
  /\ calls' = << >>
  /\ refreshPosts' = 0
  /\ completed' = NoCompleted
  /\ ctxUser' = FALSE
  /\ ctxLoading' = TRUE
  /\ UNCHANGED storage

AuthInit ==
  /\ storage \in {LoggedOutStorage} \cup {LoggedInStorage(t, r) : t \in Tokens, r \in Tokens}
  /\ authHeader = storage.token
  /\ calls = << >>
  /\ refreshPosts = 0
  /\ completed = NoCompleted
  /\ ctxUser = FALSE
  /\ ctxLoading = TRUE

AuthNext ==
  \/ SendRequest
  \/ \E status \in {200, 401, 500}, data \in 0..MaxTok : Respond(status, data)
  \/ \E r \in Tokens : RefreshReturn(r)
  \/ Deliver
  \/ CheckAuth
  \/ HandleLogout
  \/ \E t \in Tokens, r \in Tokens : Login(t, r)
  \/ Reload

\* ---- App.tsx AppRoutes ----
AppPages == {"HomePage", "Profile", "Dashboard", "ManageProduct", "StockTransactions"}

\* the Route elements: the component of the path and whether it is wrapped
\* in ProtectedRoute; "/" is <Navigate to="/signin" replace />
RouteTable ==
  [path \in {"/signin", "/signup", "/home", "/profile", "/dashboard", "/manage-product/1",
             "/stock-transactions", "/home-dev", "/profile-dev", "/dashboard-dev"} |->
     CASE path = "/signin" -> [element |-> "SignInSide", protected |-> FALSE]
       [] path = "/signup" -> [element |-> "SignUp", protected |-> FALSE]
       [] path = "/home" -> [element |-> "HomePage", protected |-> TRUE]
       [] path = "/profile" -> [element |-> "Profile", protected |-> TRUE]
       [] path = "/dashboard" -> [element |-> "Dashboard", protected |-> TRUE]
       [] path = "/manage-product/1" -> [element |-> "ManageProduct", protected |-> TRUE]
       [] path = "/stock-transactions" -> [element |-> "StockTransactions", protected |-> TRUE]
       [] path = "/home-dev" -> [element |-> "HomePage", protected |-> FALSE]
       [] path = "/profile-dev" -> [element |-> "Profile", protected |-> FALSE]
       [] path = "/dashboard-dev" -> [element |-> "Dashboard", protected |-> FALSE]]

\* what the matched Route renders at the current location
Rendered ==
  IF ~RouteTable[route].protected THEN RouteTable[route].element
  ELSE IF ProtectedRoute = "children" THEN RouteTable[route].element
  ELSE ProtectedRoute

RouteInit == route = "/signin"

\* the user enters a location or follows a link; "/" navigates on to /signin
GoTo(path) ==
  /\ UNCHANGED <<authVars, outsideAuth_route>>
  /\ path \in DOMAIN RouteTable \cup {"/"}
  /\ route' = (IF path = "/" THEN "/signin" ELSE path)
  /\ route' # route

\* ProtectedRoute rendered <Navigate to="/signin" replace />
RedirectToSignin ==
  /\ UNCHANGED <<authVars, outsideAuth_route>>
  /\ Rendered = "navigate_signin"
  /\ route' = "/signin"

RoutesNext ==
  \/ AuthNext
  \/ \E path \in DOMAIN RouteTable \cup {"/"} : GoTo(path)
  \/ RedirectToSignin

\* ======================================================================
\*  HomePage list: fetchProducts
\* ======================================================================
MaxData == 1       \* distinct non-empty result sets the server can return
MaxFetches == 2    \* loads of one view in flight at the same time

\* a result set is named by a number; 0 is the empty array
DataSets == 0..MaxData

HomeInit ==
  /\ homeLoading = TRUE
  /\ homeProducts = 0
  /\ homeFetches = 0

\* the list after a first load that found nothing
HomeLoaded ==
  /\ homeLoading = FALSE
  /\ homeProducts = 0
  /\ homeFetches = 0

\* fetchProducts up to its await: setLoading(true), GET /api/items/my
FetchProductsStart ==
  /\ homeFetches < MaxFetches
  /\ homeLoading' = TRUE
  /\ homeFetches' = homeFetches + 1
  /\ UNCHANGED homeProducts

\* what fetchProducts stores when getUserProducts resolves with data d /
\* rejects (HomePage.tsx lines 60 and 64)
ProductsAfterFetch(ok, d, old) == IF ok THEN d ELSE 0

\* fetchProducts after its await: try / catch / finally
FetchProductsEnd(ok, d) ==
  /\ homeFetches > 0
  /\ homeFetches' = homeFetches - 1
  /\ homeProducts' = ProductsAfterFetch(ok, d, homeProducts)
  /\ homeLoading' = FALSE

\* ======================================================================
\*  Add-product wizard: contexts/components/SearchBar/SearchBar.tsx
\* ======================================================================
MaxPending == 1    \* handleSubmit calls in flight at the same time

None == [kind |-> "none"]

\* what the user types into the fields of the wizard
TitleInputs == {<< >>, <<CH>>, <<CH, CH>>}
TextInputs == {<< >>, <<SP>>, <<CH>>}       \* distributor
OptInputs == {<< >>, <<CH>>}                \* unit
NumInputs == {-1, 0}                        \* stock
ThresholdInputs == {-1, 5}
ImageInputs == {<< >>, <<CH>>, <<UC>>}

\* SearchBar.tsx isValidUrl
isValidUrl(url) == url # << >> /\ \A i \in 1..Len(url) : url[i] = UC

EmptyForm == [title |-> << >>, description |-> << >>, category |-> << >>,
              distributer |-> << >>, unit |-> << >>, stock |-> 0,
              low_stock_threshold |-> 10, purchase_price |-> 0, sell_price |-> 0,
              image |-> << >>]

\* SearchBar.tsx getStepErrors: the set of fields in error
getStepErrors(step, fd) ==
  IF step = 0 THEN
    {f \in {"title"} : ~Truthy(Trim(fd.title)) \/ Len(fd.title) < 2}
  ELSE IF step = 1 THEN
    {f \in {"distributer"} : ~Truthy(Trim(fd.distributer))}
    \cup {f \in {"unit"} : ~Truthy(Trim(fd.unit))}
    \cup {f \in {"stock"} : fd.stock < 0}
    \cup {f \in {"low_stock_threshold"} :
            fd.low_stock_threshold # UndefNum /\ fd.low_stock_threshold < 0}
  ELSE IF step = 2 THEN
    {f \in {"purchase_price"} : fd.purchase_price < 0}
    \cup {f \in {"sell_price"} : fd.sell_price < 0}
    \cup {f \in {"image"} : Truthy(fd.image) /\ ~isValidUrl(fd.image)}
  ELSE {}

\* SearchBar.tsx isCurrentStepValid (useMemo)
isCurrentStepValid == getStepErrors(activeStep, formData) = {}

\* SearchBar.tsx isFormValid
isFormValid ==
  /\ Truthy(Trim(formData.title))
  /\ Truthy(Trim(formData.distributer))
  /\ Truthy(Trim(formData.unit))
  /\ formData.stock >= 0
  /\ formData.purchase_price >= 0
  /\ formData.sell_price >= 0
  /\ getStepErrors(0, formData) \cup getStepErrors(1, formData)
        \cup getStepErrors(2, formData) = {}

\* DialogActions: which buttons are rendered and enabled
StepsLength == 3
NextVisible == activeStep < StepsLength - 1
BackVisible == IF activeStep < StepsLength - 1 THEN activeStep > 0 ELSE TRUE
SubmitVisible == ~(activeStep < StepsLength - 1)

NextStepOf_Skip(prev) == prev + 2

\* the updater functions of handleNext and handleBack
NextStepOf(prev) == prev + 1
BackStepOf(prev) == prev - 1

WireFree == wire = None

WizInit ==
  /\ isDialogOpen = FALSE
  /\ activeStep = 0
  /\ formData = EmptyForm
  /\ formErrors = {}
  /\ qrScannerOpen = FALSE
  /\ qrCodeResult = << >>
  /\ qrProcessing = FALSE
  /\ qrAlert = "none"
  /\ wizPending = << >>
  /\ settled = "none"

\* no other dialog lies over the page
PageFree == ~isDialogOpen /\ ~qrScannerOpen

\* handleOpenDialog (the Add button)
HandleOpenDialog ==
  /\ UNCHANGED outsideWizard
  /\ settled' = "none"
  /\ WireFree /\ PageFree
  /\ isDialogOpen' = TRUE
  /\ activeStep' = 0
  /\ UNCHANGED <<formData, formErrors, qrScannerOpen, qrCodeResult, qrProcessing,
                 qrAlert, wizPending, homeVars, wire>>

\* the state handleCloseDialog leaves
CloseDialogEffect ==
  /\ isDialogOpen' = FALSE
  /\ activeStep' = 0
  /\ formErrors' = {}
  /\ qrCodeResult' = << >>
  /\ formData' = EmptyForm

\* handleCloseDialog (Cancelar, backdrop, Escape)
HandleCloseDialog ==
  /\ UNCHANGED outsideWizard
  /\ settled' = "none"
  /\ WireFree /\ isDialogOpen
  /\ CloseDialogEffect
  /\ UNCHANGED <<qrScannerOpen, qrProcessing, qrAlert, wizPending,
                 homeVars, wire>>

\* handleFormChange / handleCategoryChange / handleUnitChange: the user
\* edits one field of the step that is shown; its error text is cleared
EditField(field, value) ==
  /\ UNCHANGED outsideWizard
  /\ settled' = "none"
  /\ WireFree /\ isDialogOpen
  /\ formData' = [formData EXCEPT ![field] = value]
  /\ formData' # formData
  /\ formErrors' = formErrors \ {field}
  /\ UNCHANGED <<isDialogOpen, activeStep, qrScannerOpen, qrCodeResult, qrProcessing,
                 qrAlert, wizPending, homeVars, wire>>

\* (description and category are free text that no handler inspects; the
\* user leaves them as they are, the QR prefill writes the description)
EditStep0 ==
  /\ activeStep = 0
  /\ \E v \in TitleInputs : EditField("title", v)

EditStep1 ==
  /\ activeStep = 1
  /\ \/ \E v \in TextInputs : EditField("distributer", v)
     \/ \E v \in OptInputs : EditField("unit", v)
     \/ \E v \in NumInputs : EditField("stock", v)
     \/ \E v \in ThresholdInputs : EditField("low_stock_threshold", v)

\* (the price inputs are validated like the number inputs of step 1; the
\* user leaves them at 0)
EditStep2 ==
  /\ activeStep = 2
  /\ \E v \in ImageInputs : EditField("image", v)

\* handleNext (Proximo, rendered before the last step, disabled while the
\* step has errors): validateStep stores the errors and gates the move
HandleNext ==
  /\ UNCHANGED outsideWizard
  /\ settled' = "none"
  /\ WireFree /\ isDialogOpen
  /\ NextVisible /\ isCurrentStepValid
  /\ formErrors' = getStepErrors(activeStep, formData)
  /\ activeStep' = IF getStepErrors(activeStep, formData) = {}
                   THEN NextStepOf(activeStep) ELSE activeStep
  /\ UNCHANGED <<isDialogOpen, formData, qrScannerOpen, qrCodeResult, qrProcessing,
                 qrAlert, wizPending, homeVars, wire>>

\* handleBack (Voltar)
HandleBack ==
  /\ UNCHANGED outsideWizard
  /\ settled' = "none"
  /\ WireFree /\ isDialogOpen
  /\ BackVisible
  /\ activeStep' = BackStepOf(activeStep)
  /\ UNCHANGED <<isDialogOpen, formData, formErrors, qrScannerOpen, qrCodeResult,
                 qrProcessing, qrAlert, wizPending, homeVars, wire>>

\* the QR button of the search bar
OpenQRScanner ==
  /\ UNCHANGED outsideWizard
  /\ settled' = "none"
  /\ WireFree /\ PageFree
  /\ qrScannerOpen' = TRUE
  /\ UNCHANGED <<isDialogOpen, activeStep, formData, formErrors, qrCodeResult,
                 qrProcessing, qrAlert, wizPending, homeVars, wire>>

QRCode == <<CH>>

\* handleQRScan up to its await (the scanner decoded a code)
HandleQRScan ==
  /\ UNCHANGED outsideWizard
  /\ settled' = "none"
  /\ WireFree /\ qrScannerOpen /\ ~qrProcessing
  /\ qrProcessing' = TRUE
  /\ qrCodeResult' = QRCode
  /\ UNCHANGED <<isDialogOpen, activeStep, formData, formErrors, qrScannerOpen,
                 qrAlert, wizPending, homeVars, wire>>

\* handleQRScan after processQRScan settled: "found" (product or barcode),
\* "unknown", or "error" (the request failed)
HandleQRScanDone(result) ==
  /\ UNCHANGED outsideWizard
  /\ settled' = "none"
  /\ WireFree /\ qrProcessing
  /\ qrProcessing' = FALSE
  /\ IF result = "found" THEN
       /\ qrAlert' = "success"
       /\ UNCHANGED <<formData, isDialogOpen>>
     ELSE IF result = "unknown" THEN
       /\ qrAlert' = "info"
       /\ formData' = [formData EXCEPT !.title = <<CH, CH>>, !.description = <<CH>>]
       /\ isDialogOpen' = TRUE
     ELSE
       /\ qrAlert' = "error"
       /\ UNCHANGED <<formData, isDialogOpen>>
  /\ UNCHANGED <<activeStep, formErrors, qrScannerOpen, qrCodeResult, wizPending,
                 homeVars, wire>>

\* handleQRScannerClose (the scanner's onClose: the user, or the timer
\* that follows a scan)
HandleQRScannerClose ==
  /\ UNCHANGED outsideWizard
  /\ settled' = "none"
  /\ WireFree /\ qrScannerOpen
  /\ qrScannerOpen' = FALSE
  /\ qrCodeResult' = << >>
  /\ UNCHANGED <<isDialogOpen, activeStep, formData, formErrors, qrProcessing,
                 qrAlert, wizPending, homeVars, wire>>

\* the Snackbar of qrAlert closes
CloseQrAlert ==
  /\ UNCHANGED outsideWizard
  /\ settled' = "none"
  /\ WireFree /\ qrAlert # "none"
  /\ qrAlert' = "none"
  /\ UNCHANGED <<isDialogOpen, activeStep, formData, formErrors, qrScannerOpen,
                 qrCodeResult, qrProcessing, wizPending, homeVars, wire>>

\* x || undefined for a string
OrUndef(s) == IF Truthy(s) THEN s ELSE UndefStr

\* HomePage.handleAddProduct: productData built from the card data
\* (cardData.price does not exist on CardFormData)
ProductDataOf(cardData) ==
  [name |-> cardData.title, description |-> OrUndef(cardData.description),
   category |-> OrUndef(cardData.category), distributer |-> cardData.distributer,
   unit |-> OrUndef(cardData.unit), stock |-> cardData.stock,
   price |-> UndefNum, image |-> OrUndef(cardData.image)]

\* productService.createProduct: backendPayload built from itemData, whose
\* low_stock_threshold, purchase_price and sell_price members are absent
CreatePayloadOf(itemData) ==
  [title |-> itemData.name, description |-> itemData.description,
   category |-> itemData.category, distributer |-> itemData.distributer,
   unit |-> itemData.unit, stock |-> itemData.stock,
   low_stock_threshold |-> UndefNum, purchase_price |-> UndefNum,
   sell_price |-> UndefNum, image |-> itemData.image]

\* productService.createItemFromQR: payload built by handleSubmit
QRPayloadOf(fd) ==
  [title |-> fd.title, description |-> fd.description, category |-> fd.category,
   distributer |-> fd.distributer, unit |-> fd.unit, stock |-> fd.stock,
   low_stock_threshold |-> fd.low_stock_threshold,
   purchase_price |-> fd.purchase_price, sell_price |-> fd.sell_price,
   image |-> fd.image]

\* handleSubmit up to its await (Criar, rendered on the last step, disabled
\* while isFormValid() is false): validateStep(2), then one create request
HandleSubmit ==
  /\ UNCHANGED outsideWizard
  /\ settled' = "none"
  /\ WireFree /\ isDialogOpen
  /\ SubmitVisible /\ isFormValid
  /\ Len(wizPending) < MaxPending
  /\ formErrors' = getStepErrors(2, formData)
  /\ IF getStepErrors(2, formData) = {}
     THEN IF Truthy(qrCodeResult)
          THEN /\ wire' = [kind |-> "createFromQR", body |-> QRPayloadOf(formData),
                           entered |-> formData]
               /\ wizPending' = Append(wizPending, "qr")
          ELSE /\ wire' = [kind |-> "createProduct",
                           body |-> CreatePayloadOf(ProductDataOf(formData)),
                           entered |-> formData]
               /\ wizPending' = Append(wizPending, "card")
     ELSE UNCHANGED <<wire, wizPending>>
  /\ UNCHANGED <<isDialogOpen, activeStep, formData, qrScannerOpen, qrCodeResult,
                 qrProcessing, qrAlert, homeVars>>

\* ---- the REST API (its handlers are not part of the client sources) ----
\* the stock transactions the list can show
TxRows ==
  { [item_id |-> 1, transaction_type |-> "loss", quantity |-> 1, reason |-> <<CH>>,
     notes |-> UndefStr, cost_impact |-> UndefNum, reference_number |-> UndefStr],
    [item_id |-> 1, transaction_type |-> "return", quantity |-> 2, reason |-> <<CH, CH>>,
     notes |-> <<CH>>, cost_impact |-> 1, reference_number |-> UndefStr] }

\* update(id, partialFields): only the provided fields are replaced
Merge(rec, part) ==
  [f \in DOMAIN rec |-> IF f \in DOMAIN part THEN part[f] ELSE rec[f]]

\* the undefined value of a member (JSON.stringify leaves such members out)
UndefinedOf(f) == IF f = "description" THEN UndefStr ELSE UndefNum

ServerApply_AddsStock(s, req) ==
  IF req.kind = "updateItem"
  THEN [s EXCEPT !.item.stock = s.item.stock + req.body.stock]
  ELSE s

\* what a request does to the stored records: a PUT replaces the members the
\* body provides (JSON leaves undefined members out); a transaction is
\* appended without touching the item it refers to
ServerApply(s, req) ==
  IF req.kind = "updateTransaction" THEN [s EXCEPT !.tx = Merge(s.tx, req.body)]
  ELSE IF req.kind = "updateItem"
  THEN [s EXCEPT !.item = [f \in DOMAIN s.item |->
                             IF f \in DOMAIN req.body /\ req.body[f] # UndefinedOf(f)
                             THEN req.body[f] ELSE s.item[f]]]
  ELSE s

SrvInit == srv \in [tx : TxRows, item : {[stock |-> 1, low_stock_threshold |-> 1,
                                           description |-> <<CH>>]}]

\* the request reaches the server
ServerReceive ==
  /\ wire # None
  /\ wire' = None
  /\ srv' = ServerApply(srv, wire)
  /\ UNCHANGED <<authVars, wizVars, homeVars, page, loadEvent, dashVars, stVars, alVars,
                 txVars, mpVars, hmVars, exVars, agg, route, scanner>>

RemoveAt(s, i) == SubSeq(s, 1, i - 1) \o SubSeq(s, i + 1, Len(s))

\* handleSubmit after its await: success closes and resets, failure
\* leaves the dialog and shows the error
SubmitSettles(i, resolved) ==
  /\ wizPending' = RemoveAt(wizPending, i)
  /\ IF resolved
     THEN /\ CloseDialogEffect
          /\ qrAlert' = "success"
     ELSE /\ qrAlert' = "error"
          /\ UNCHANGED <<isDialogOpen, activeStep, formErrors, qrCodeResult, formData>>

\* whether the promise of handleAddProduct resolves when createProduct
\* succeeded / failed: its catch block handles every error
AddProductResolves(created) == TRUE

\* createItemFromQR settled
QRCreateResponse(i, ok) ==
  /\ UNCHANGED outsideWizard
  /\ settled' = IF ok THEN "created" ELSE "failed"
  /\ WireFree
  /\ i \in 1..Len(wizPending) /\ wizPending[i] = "qr"
  /\ SubmitSettles(i, ok)
  /\ UNCHANGED <<qrScannerOpen, qrProcessing, homeVars, wire>>

\* handleAddProduct after createProduct settled: on success fetchProducts
\* starts, on failure the error is caught (window.alert shows a text and
\* changes no state)
CardCreateResponse(i, ok) ==
  /\ UNCHANGED outsideWizard
  /\ WireFree
  /\ i \in 1..Len(wizPending) /\ wizPending[i] = "card"
  /\ IF ok
     THEN /\ settled' = "none"
          /\ homeFetches < MaxFetches
          /\ FetchProductsStart
          /\ wizPending' = [wizPending EXCEPT ![i] = "fetch"]
          /\ UNCHANGED <<isDialogOpen, activeStep, formErrors, qrCodeResult, formData,
                         qrAlert>>
     ELSE /\ settled' = "failed"
          /\ SubmitSettles(i, AddProductResolves(FALSE))
          /\ UNCHANGED homeVars
  /\ UNCHANGED <<qrScannerOpen, qrProcessing, wire>>

\* handleAddProduct after fetchProducts returned: alert, then handleSubmit
\* continues
CardFetchResponse(i, ok, d) ==
  /\ UNCHANGED outsideWizard
  /\ WireFree
  /\ i \in 1..Len(wizPending) /\ wizPending[i] = "fetch"
  /\ FetchProductsEnd(ok, d)
  /\ settled' = "created"
  /\ SubmitSettles(i, AddProductResolves(TRUE))
  /\ UNCHANGED <<qrScannerOpen, qrProcessing, wire>>

WizardNext ==
  \/ HandleOpenDialog
  \/ HandleCloseDialog
  \/ EditStep0
  \/ EditStep1
  \/ EditStep2
  \/ HandleNext
  \/ HandleBack
  \/ OpenQRScanner
  \/ HandleQRScan
  \/ \E r \in {"found", "unknown", "error"} : HandleQRScanDone(r)
  \/ HandleQRScannerClose
  \/ CloseQrAlert
  \/ HandleSubmit
  \/ \E i \in 1..MaxPending, ok \in BOOLEAN : QRCreateResponse(i, ok)
  \/ \E i \in 1..MaxPending, ok \in BOOLEAN : CardCreateResponse(i, ok)
  \/ \E i \in 1..MaxPending, ok \in BOOLEAN, d \in DataSets : CardFetchResponse(i, ok, d)
  \/ ServerReceive

\* ======================================================================
\*  List views: HomePage, Dashboard, StockTransactions, ActivityLog.
\*  One page is mounted at a time (App.tsx Routes); mounting constructs
\*  the component state and runs its mount effects.
\* ======================================================================
MaxPages == 2      \* pages of results the server can report

Pages == {"home", "dashboard", "stock", "activity"}

NoEvent == [view |-> "none", outcome |-> "none", data |-> [none |-> 0]]

ItemsPerPage == 10

\* total_count values the server reports: 0 .. MaxPages full pages, and
\* one row more than a full page
TotalCounts == {n * ItemsPerPage : n \in 0..MaxPages}
                 \cup {n * ItemsPerPage + 1 : n \in 0..(MaxPages - 1)}

\* Math.ceil(total / perPage)
CeilDiv(total, perPage) == (total + perPage - 1) \div perPage

\* ---- HomePage ----
\* the mount effect, and every later call, of fetchProducts
HomeFetchStart ==
  /\ page = "home"
  /\ FetchProductsStart
  /\ loadEvent' = NoEvent
  /\ UNCHANGED <<page, dashVars, stVars, alVars>>
  /\ UNCHANGED outsideViews

HomeFetchEnd(ok, d) ==
  /\ page = "home"
  /\ FetchProductsEnd(ok, d)
  /\ loadEvent' = [view |-> "home", outcome |-> IF ok THEN "ok" ELSE "failed",
                   data |-> [products |-> d]]
  /\ UNCHANGED <<page, dashVars, stVars, alVars>>
  /\ UNCHANGED outsideViews

\* ---- Dashboard ----
NoDashData == [loaded |-> FALSE, products |-> 0, lowStock |-> 0, categories |-> 0]

\* dashboardService.getDashboardData: the data built from the responses;
\* a failed categories/distributors request is replaced by []
DashboardDataOf(d, low, c, softOk) ==
  [loaded |-> TRUE, products |-> d, lowStock |-> low,
   categories |-> IF softOk THEN c ELSE 0]

\* loadDashboardData up to its await (mount effect, handleRefresh)
LoadDashboardStart ==
  /\ page = "dashboard"
  /\ ~dashLoading
  /\ dashError \/ dashData.loaded          \* the views that offer Refresh
  /\ dashLoads < MaxFetches
  /\ dashLoading' = TRUE
  /\ dashError' = FALSE
  /\ dashLoads' = dashLoads + 1
  /\ loadEvent' = NoEvent
  /\ UNCHANGED <<dashData, page, homeVars, stVars, alVars>>
  /\ UNCHANGED outsideViews

\* loadDashboardData after Promise.all settled. hardOk: the item requests
\* (/api/items/my, /api/items/low-stock) all succeeded; softOk: the
\* categories and distributors requests succeeded.
LoadDashboardEnd(hardOk, softOk, d, low, c) ==
  /\ page = "dashboard"
  /\ dashLoads > 0
  /\ dashLoads' = dashLoads - 1
  /\ IF hardOk
     THEN /\ dashData' = DashboardDataOf(d, low, c, softOk)
          /\ UNCHANGED dashError
     ELSE /\ dashError' = TRUE
          /\ UNCHANGED dashData
  /\ dashLoading' = FALSE
  /\ loadEvent' = [view |-> "dashboard",
                   outcome |-> IF hardOk /\ softOk THEN "ok" ELSE "failed",
                   data |-> [loaded |-> TRUE, products |-> d, lowStock |-> low,
                             categories |-> c]]
  /\ UNCHANGED <<page, homeVars, stVars, alVars>>
  /\ UNCHANGED outsideViews

\* ---- StockTransactions ----
NoRows == [type |-> -1, item |-> -1, page |-> 0]

StQuery == [type |-> stFilterType, item |-> stFilterItem, page |-> stPage]

\* a new load becomes the latest one
Issue(loads, q) ==
  Append([i \in 1..Len(loads) |-> [loads[i] EXCEPT !.latest = FALSE]],
         [q |-> q, latest |-> TRUE])

\* loadData up to its await, for the query of the render that ran the effect
StLoadStart(q) ==
  /\ stLoading' = TRUE
  /\ stError' = FALSE
  /\ stLoads' = Issue(stLoads, q)
  /\ stLatestOk' = FALSE

\* the type filter changes; the effect on [page, filterType, filterItem] runs
StSetFilterType(v) ==
  /\ page = "stock"
  /\ v # stFilterType
  /\ Len(stLoads) < MaxFetches
  /\ stFilterType' = v
  /\ StLoadStart([StQuery EXCEPT !.type = v])
  /\ loadEvent' = NoEvent
  /\ UNCHANGED <<stRows, stTotalPages, stFilterItem, stPage, page, homeVars, dashVars,
                 alVars>>
  /\ UNCHANGED outsideViews

\* the product filter changes (its options are the loaded items)
StSetFilterItem(v) ==
  /\ page = "stock"
  /\ v # stFilterItem
  /\ v # 0 => stRows # NoRows
  /\ Len(stLoads) < MaxFetches
  /\ stFilterItem' = v
  /\ StLoadStart([StQuery EXCEPT !.item = v])
  /\ loadEvent' = NoEvent
  /\ UNCHANGED <<stRows, stTotalPages, stFilterType, stPage, page, homeVars, dashVars,
                 alVars>>
  /\ UNCHANGED outsideViews

\* Pagination (rendered when totalPages > 1)
StSetPage(n) ==
  /\ page = "stock"
  /\ stTotalPages > 1
  /\ n \in 1..stTotalPages
  /\ n # stPage
  /\ Len(stLoads) < MaxFetches
  /\ stPage' = n
  /\ StLoadStart([StQuery EXCEPT !.page = n])
  /\ loadEvent' = NoEvent
  /\ UNCHANGED <<stRows, stTotalPages, stFilterType, stFilterItem, page, homeVars,
                 dashVars, alVars>>
  /\ UNCHANGED outsideViews

\* loadData after Promise.all settled: try / catch / finally
StLoadSettles(i, ok, total) ==
  /\ stLoads' = RemoveAt(stLoads, i)
  /\ IF ok
     THEN /\ stRows' = stLoads[i].q
          /\ stTotalPages' = CeilDiv(total, ItemsPerPage)
          /\ stLatestOk' = (stLatestOk \/ stLoads[i].latest)
          /\ UNCHANGED stError
     ELSE /\ stError' = TRUE
          /\ UNCHANGED <<stRows, stTotalPages, stLatestOk>>
  /\ stLoading' = FALSE

StLoadEnd(i, ok, total) ==
  /\ page = "stock"
  /\ i \in 1..Len(stLoads)
  /\ StLoadSettles(i, ok, total)
  /\ loadEvent' = [view |-> "stock", outcome |-> IF ok THEN "ok" ELSE "failed",
                   data |-> [rows |-> stLoads[i].q,
                             pages |-> CeilDiv(total, ItemsPerPage)]]
  /\ UNCHANGED <<stFilterType, stFilterItem, stPage, page, homeVars, dashVars, alVars>>
  /\ UNCHANGED outsideViews

\* the error Snackbar closes (onClose, autoHideDuration)
StCloseError ==
  /\ page = "stock"
  /\ stError
  /\ stError' = FALSE
  /\ loadEvent' = NoEvent
  /\ UNCHANGED <<stLoading, stRows, stTotalPages, stFilterType, stFilterItem, stPage,
                 stLoads, stLatestOk, page, homeVars, dashVars, alVars>>
  /\ UNCHANGED outsideViews

\* ---- ActivityLog (rowsPerPage stays 10, no entity filter) ----
AlQuery == [type |-> alFilterType, item |-> 0, page |-> alPage]

\* fetchActivities up to its await
AlFetchStart(q) ==
  /\ alLoading' = TRUE
  /\ alLoads' = Issue(alLoads, q)
  /\ alLatestOk' = FALSE

AlSetFilterType(v) ==
  /\ page = "activity"
  /\ v # alFilterType
  /\ Len(alLoads) < MaxFetches
  /\ alFilterType' = v
  /\ AlFetchStart([AlQuery EXCEPT !.type = v])
  /\ loadEvent' = NoEvent
  /\ UNCHANGED <<alError, alRows, alTotalCount, alPage, page, homeVars, dashVars, stVars>>
  /\ UNCHANGED outsideViews

\* handleChangePage (TablePagination offers the pages that count allows)
AlChangePage(n) ==
  /\ page = "activity"
  /\ n # alPage
  /\ n >= 0 /\ n < (IF alTotalCount = 0 THEN 1 ELSE CeilDiv(alTotalCount, ItemsPerPage))
  /\ Len(alLoads) < MaxFetches
  /\ alPage' = n
  /\ AlFetchStart([AlQuery EXCEPT !.page = n])
  /\ loadEvent' = NoEvent
  /\ UNCHANGED <<alError, alRows, alTotalCount, alFilterType, page, homeVars, dashVars,
                 stVars>>
  /\ UNCHANGED outsideViews

\* fetchActivities after Promise.all settled
AlFetchEnd(i, ok, total) ==
  /\ page = "activity"
  /\ i \in 1..Len(alLoads)
  /\ alLoads' = RemoveAt(alLoads, i)
  /\ IF ok
     THEN /\ alRows' = alLoads[i].q
          /\ alTotalCount' = total
          /\ alLatestOk' = (alLatestOk \/ alLoads[i].latest)
          /\ UNCHANGED alError
     ELSE /\ alError' = TRUE
          /\ UNCHANGED <<alRows, alTotalCount, alLatestOk>>
  /\ alLoading' = FALSE
  /\ loadEvent' = [view |-> "activity", outcome |-> IF ok THEN "ok" ELSE "failed",
                   data |-> [rows |-> alLoads[i].q, count |-> total]]
  /\ UNCHANGED <<alFilterType, alPage, page, homeVars, dashVars, stVars>>
  /\ UNCHANGED outsideViews

\* ---- construction and mount effects ----
\* the first load of the page that mounts: StockTransactions issues one
\* load for the unfiltered query and, when the URL carries ?item=, a second
\* one for the filtered query
MountLoads(p, urlItem) ==
  IF p = "stock"
  THEN IF urlItem = 0
       THEN Issue(<< >>, [type |-> 0, item |-> 0, page |-> 1])
       ELSE Issue(Issue(<< >>, [type |-> 0, item |-> 0, page |-> 1]),
                  [type |-> 0, item |-> urlItem, page |-> 1])
  ELSE IF p = "activity" THEN Issue(<< >>, [type |-> 0, item |-> 0, page |-> 0])
  ELSE << >>

ViewsInit ==
  \E p \in Pages, urlItem \in 0..1 :
    /\ page = p
    /\ loadEvent = NoEvent
    /\ homeLoading = TRUE /\ homeProducts = 0
    /\ homeFetches = (IF p = "home" THEN 1 ELSE 0)
    /\ dashLoading = TRUE /\ dashError = FALSE /\ dashData = NoDashData
    /\ dashLoads = (IF p = "dashboard" THEN 1 ELSE 0)
    /\ stLoading = TRUE /\ stError = FALSE /\ stRows = NoRows /\ stTotalPages = 1
    /\ stFilterType = 0 /\ stPage = 1
    /\ stFilterItem = (IF p = "stock" THEN urlItem ELSE 0)
    /\ stLoads = (IF p = "stock" THEN MountLoads(p, urlItem) ELSE << >>)
    /\ stLatestOk = FALSE
    /\ alLoading = TRUE /\ alError = FALSE /\ alRows = NoRows /\ alTotalCount = 0
    /\ alFilterType = 0 /\ alPage = 0
    /\ alLoads = (IF p = "activity" THEN MountLoads(p, 0) ELSE << >>)
    /\ alLatestOk = FALSE

\* the state of the list views other than HomePage while none of them is
\* mounted
ViewsIdle ==
  /\ loadEvent = NoEvent
  /\ dashLoading = TRUE /\ dashError = FALSE /\ dashData = NoDashData /\ dashLoads = 0
  /\ stLoading = TRUE /\ stError = FALSE /\ stRows = NoRows /\ stTotalPages = 1
  /\ stFilterType = 0 /\ stFilterItem = 0 /\ stPage = 1 /\ stLoads = << >>
  /\ stLatestOk = FALSE
  /\ alLoading = TRUE /\ alError = FALSE /\ alRows = NoRows /\ alTotalCount = 0
  /\ alFilterType = 0 /\ alPage = 0 /\ alLoads = << >> /\ alLatestOk = FALSE

\* no list view has been mounted
ViewsQuiet == page = "none" /\ ViewsIdle

\* the router unmounts the page and mounts p (urlItem: the ?item= parameter)
Navigate(p, urlItem) ==
  /\ page # p
  /\ (urlItem # 0 => p = "stock")
  /\ page' = p
  /\ loadEvent' = NoEvent
  /\ homeLoading' = TRUE /\ homeProducts' = 0
  /\ homeFetches' = (IF p = "home" THEN 1 ELSE 0)
  /\ dashLoading' = TRUE /\ dashError' = FALSE /\ dashData' = NoDashData
  /\ dashLoads' = (IF p = "dashboard" THEN 1 ELSE 0)
  /\ stLoading' = TRUE /\ stError' = FALSE /\ stRows' = NoRows /\ stTotalPages' = 1
  /\ stFilterType' = 0 /\ stPage' = 1
  /\ stFilterItem' = (IF p = "stock" THEN urlItem ELSE 0)
  /\ stLoads' = (IF p = "stock" THEN MountLoads(p, urlItem) ELSE << >>)
  /\ stLatestOk' = FALSE
  /\ alLoading' = TRUE /\ alError' = FALSE /\ alRows' = NoRows /\ alTotalCount' = 0
  /\ alFilterType' = 0 /\ alPage' = 0
  /\ alLoads' = (IF p = "activity" THEN MountLoads(p, 0) ELSE << >>)
  /\ alLatestOk' = FALSE
  /\ UNCHANGED outsideViews

\* ---- what each view shows ----
ViewLoading(v) == IF v = "home" THEN homeLoading
                  ELSE IF v = "dashboard" THEN dashLoading
                  ELSE IF v = "stock" THEN stLoading ELSE alLoading

\* an error is on screen (HomePage renders none)
ViewError(v) == IF v = "home" THEN FALSE
                ELSE IF v = "dashboard" THEN (~dashLoading /\ dashError)
                ELSE IF v = "stock" THEN stError ELSE alError

\* the data the view holds
ViewData(v) == IF v = "home" THEN [products |-> homeProducts]
               ELSE IF v = "dashboard" THEN dashData
               ELSE IF v = "stock" THEN [rows |-> stRows, pages |-> stTotalPages]
               ELSE [rows |-> alRows, count |-> alTotalCount]

ViewsNext ==
  \/ HomeFetchStart
  \/ \E ok \in BOOLEAN, d \in DataSets : HomeFetchEnd(ok, d)
  \/ LoadDashboardStart
  \/ \E hardOk \in BOOLEAN, softOk \in BOOLEAN, d \in DataSets, low \in DataSets,
        c \in DataSets : LoadDashboardEnd(hardOk, softOk, d, low, c)
  \/ \E v \in 0..1 : StSetFilterType(v)
  \/ \E v \in 0..1 : StSetFilterItem(v)
  \/ \E n \in 1..MaxPages : StSetPage(n)
  \/ \E i \in 1..MaxFetches, ok \in BOOLEAN, total \in TotalCounts : StLoadEnd(i, ok, total)
  \/ StCloseError
  \/ \E v \in 0..1 : AlSetFilterType(v)
  \/ \E n \in 0..(MaxPages - 1) : AlChangePage(n)
  \/ \E i \in 1..MaxFetches, ok \in BOOLEAN, total \in TotalCounts : AlFetchEnd(i, ok, total)
  \/ \E p \in Pages, urlItem \in 0..1 : Navigate(p, urlItem)

\* ======================================================================
\*  StockTransactions: the create-transaction dialog
\* ======================================================================
\* a number that is not one (parseInt of a text without leading digits)
NaN == -98

\* what the user types into a number input
NumTexts == {"", "abc", "-1", "0", "1", "2"}

\* parseInt
ParseInt(t) == IF t = "-1" THEN -1
               ELSE IF t = "0" THEN 0
               ELSE IF t = "1" THEN 1
               ELSE IF t = "2" THEN 2
               ELSE NaN

\* n || 0
OrZero(n) == IF n = NaN \/ n = 0 THEN 0 ELSE n

\* enum StockTransactionType
StockTransactionType == {"loss", "damage", "return"}

\* useState<CreateStockTransactionData> and resetForm
EmptyTxForm == [item_id |-> 0, transaction_type |-> "loss", quantity |-> 0,
                reason |-> << >>]

TxInit ==
  /\ createDialogOpen = FALSE
  /\ txForm = EmptyTxForm
  /\ txSuccess = FALSE
  /\ txPending = << >>
  /\ editDialogOpen = FALSE
  /\ selectedTransaction = [item_id |-> 0]      \* null
  /\ editFormData = [reason |-> << >>, notes |-> << >>, cost_impact |-> 0,
                     reference_number |-> << >>]
  /\ tePending = << >>

CreateDisabled_NoQuantity(fd) == fd.item_id = 0 \/ ~Truthy(fd.reason)

\* the disabled attribute of the "Criar Transacao" button
CreateDisabled(fd) == fd.item_id = 0 \/ ~Truthy(fd.reason) \/ fd.quantity <= 0

\* "Nova Transacao" button
OpenCreateDialog ==
  /\ UNCHANGED outsideTx
  /\ page = "stock" /\ WireFree
  /\ ~createDialogOpen /\ ~editDialogOpen
  /\ createDialogOpen' = TRUE
  /\ UNCHANGED <<txForm, txSuccess, txPending, wire, loadEvent, stVars, teVars>>

\* Dialog onClose, "Cancelar"
CloseCreateDialog ==
  /\ UNCHANGED outsideTx
  /\ page = "stock" /\ WireFree
  /\ createDialogOpen
  /\ createDialogOpen' = FALSE
  /\ UNCHANGED <<txForm, txSuccess, txPending, wire, loadEvent, stVars, teVars>>

\* the onChange handlers of the dialog: the Select offers the three
\* MenuItems, the quantity input passes parseInt(e.target.value) || 0
TxEdit(fd) ==
  /\ UNCHANGED outsideTx
  /\ page = "stock" /\ WireFree
  /\ createDialogOpen
  /\ fd # txForm
  /\ txForm' = fd
  /\ UNCHANGED <<createDialogOpen, txSuccess, txPending, wire, loadEvent, stVars, teVars>>

\* Autocomplete over the loaded items (0: cleared)
TxSelectItem(v) ==
  /\ (v # 0 => stRows # NoRows)
  /\ TxEdit([txForm EXCEPT !.item_id = v])

CreateTransactionRequest_StockWrite(fd) ==
  [kind |-> "updateItem", body |-> [stock |-> 0], entered |-> fd]

\* stockTransactionService.createTransaction: POST /api/stock-transactions/
CreateTransactionRequest(fd) ==
  [kind |-> "createTransaction", body |-> fd, entered |-> fd]

\* handleCreateTransaction up to its await; it keeps the query of the
\* render it was created in for the loadData() that follows
HandleCreateTransaction ==
  /\ UNCHANGED outsideTx
  /\ page = "stock" /\ WireFree
  /\ createDialogOpen
  /\ ~CreateDisabled(txForm)
  /\ Len(txPending) < MaxPending
  /\ stError' = FALSE
  /\ wire' = CreateTransactionRequest(txForm)
  /\ txPending' = Append(txPending, StQuery)
  /\ UNCHANGED <<createDialogOpen, txForm, txSuccess, teVars, loadEvent, stLoading, stRows,
                 stTotalPages, stFilterType, stFilterItem, stPage, stLoads, stLatestOk>>

\* handleCreateTransaction after its await
CreateTransactionResponse(i, ok) ==
  /\ UNCHANGED outsideTx
  /\ page = "stock" /\ WireFree
  /\ i \in 1..Len(txPending)
  /\ txPending' = RemoveAt(txPending, i)
  /\ IF ok
     THEN /\ Len(stLoads) < MaxFetches
          /\ txSuccess' = TRUE
          /\ createDialogOpen' = FALSE
          /\ txForm' = EmptyTxForm
          /\ StLoadStart(txPending[i])
          /\ UNCHANGED <<stRows, stTotalPages>>
     ELSE /\ stError' = TRUE
          /\ UNCHANGED <<txSuccess, createDialogOpen, txForm, stLoading, stLoads,
                         stLatestOk, stRows, stTotalPages>>
  /\ UNCHANGED <<wire, loadEvent, stFilterType, stFilterItem, stPage, teVars>>

\* the success Snackbar closes
CloseSuccess ==
  /\ UNCHANGED outsideTx
  /\ page = "stock" /\ WireFree
  /\ txSuccess
  /\ txSuccess' = FALSE
  /\ UNCHANGED <<createDialogOpen, txForm, txPending, wire, loadEvent, stVars, teVars>>

\* a loadData of the page settles while the dialog is in use
TxLoadEnd(i, ok, total) ==
  /\ UNCHANGED outsideTx
  /\ page = "stock" /\ WireFree
  /\ i \in 1..Len(stLoads)
  /\ StLoadSettles(i, ok, total)
  /\ UNCHANGED <<txVars, wire, loadEvent, stFilterType, stFilterItem, stPage>>

\* ---- the edit dialog ----
EditFormOf_Spread(transaction) ==
  [f \in DOMAIN transaction |->
     IF f = "notes" /\ transaction.notes = UndefStr THEN << >>
     ELSE IF f = "reference_number" /\ transaction.reference_number = UndefStr THEN << >>
     ELSE IF f = "cost_impact" /\ transaction.cost_impact = UndefNum THEN 0
     ELSE transaction[f]]

\* the object openEditDialog passes to setEditFormData (x || '' and x || 0)
EditFormOf(transaction) ==
  [reason |-> transaction.reason,
   notes |-> IF transaction.notes = UndefStr THEN << >> ELSE transaction.notes,
   cost_impact |-> IF transaction.cost_impact = UndefNum THEN 0
                   ELSE OrZero(transaction.cost_impact),
   reference_number |-> IF transaction.reference_number = UndefStr THEN << >>
                        ELSE transaction.reference_number]

\* the edit IconButton of a table row
OpenEditDialog(transaction) ==
  /\ UNCHANGED outsideTx
  /\ page = "stock" /\ WireFree
  /\ ~createDialogOpen /\ ~editDialogOpen
  /\ stRows # NoRows
  /\ selectedTransaction' = transaction
  /\ editFormData' = EditFormOf(transaction)
  /\ editDialogOpen' = TRUE
  /\ UNCHANGED <<createDialogOpen, txForm, txSuccess, txPending, tePending, wire,
                 loadEvent, stVars>>

\* Dialog onClose, "Cancelar"
CloseEditDialog ==
  /\ UNCHANGED outsideTx
  /\ page = "stock" /\ WireFree
  /\ editDialogOpen
  /\ editDialogOpen' = FALSE
  /\ UNCHANGED <<createDialogOpen, txForm, txSuccess, txPending, selectedTransaction,
                 editFormData, tePending, wire, loadEvent, stVars>>

\* the onChange handlers of the edit dialog: setEditFormData(prev => ({...prev, x}))
TeEdit(fd) ==
  /\ UNCHANGED outsideTx
  /\ page = "stock" /\ WireFree
  /\ editDialogOpen
  /\ fd # editFormData
  /\ editFormData' = fd
  /\ UNCHANGED <<createDialogOpen, txForm, txSuccess, txPending, editDialogOpen,
                 selectedTransaction, tePending, wire, loadEvent, stVars>>

\* handleUpdateTransaction up to its await ("Salvar Alteracoes" is disabled
\* while the reason is empty)
HandleUpdateTransaction ==
  /\ UNCHANGED outsideTx
  /\ page = "stock" /\ WireFree
  /\ editDialogOpen
  /\ Truthy(editFormData.reason)
  /\ selectedTransaction # [item_id |-> 0]
  /\ Len(tePending) < MaxPending
  /\ stError' = FALSE
  /\ wire' = [kind |-> "updateTransaction", body |-> editFormData,
              entered |-> editFormData]
  /\ tePending' = Append(tePending, StQuery)
  /\ UNCHANGED <<createDialogOpen, txForm, txSuccess, txPending, editDialogOpen,
                 selectedTransaction, editFormData, loadEvent, stLoading, stRows,
                 stTotalPages, stFilterType, stFilterItem, stPage, stLoads, stLatestOk>>

\* handleUpdateTransaction after its await
UpdateTransactionResponse(i, ok) ==
  /\ UNCHANGED outsideTx
  /\ page = "stock" /\ WireFree
  /\ i \in 1..Len(tePending)
  /\ tePending' = RemoveAt(tePending, i)
  /\ IF ok
     THEN /\ Len(stLoads) < MaxFetches
          /\ txSuccess' = TRUE
          /\ editDialogOpen' = FALSE
          /\ StLoadStart(tePending[i])
          /\ UNCHANGED <<stRows, stTotalPages>>
     ELSE /\ stError' = TRUE
          /\ UNCHANGED <<txSuccess, editDialogOpen, stLoading, stLoads, stLatestOk,
                         stRows, stTotalPages>>
  /\ UNCHANGED <<createDialogOpen, txForm, txPending, selectedTransaction, editFormData,
                 wire, loadEvent, stFilterType, stFilterItem, stPage>>

\* the edit dialog in use; the cost input passes parseFloat(e.target.value) || 0
TeNext ==
  \/ \E transaction \in TxRows : OpenEditDialog(transaction)
  \/ CloseEditDialog
  \/ \E r \in TextInputs : TeEdit([editFormData EXCEPT !.reason = r])
  \/ \E t \in {"abc", "2"} : TeEdit([editFormData EXCEPT !.cost_impact = OrZero(ParseInt(t))])
  \/ HandleUpdateTransaction
  \/ \E i \in 1..MaxPending, ok \in BOOLEAN : UpdateTransactionResponse(i, ok)
  \/ CloseSuccess
  \/ \E i \in 1..MaxFetches, ok \in BOOLEAN, total \in {0, ItemsPerPage + 1} :
       TxLoadEnd(i, ok, total)
  \/ ServerReceive

TxNext ==
  \/ OpenCreateDialog
  \/ CloseCreateDialog
  \/ \E v \in 0..1 : TxSelectItem(v)
  \/ \E t \in StockTransactionType : TxEdit([txForm EXCEPT !.transaction_type = t])
  \/ \E t \in NumTexts : TxEdit([txForm EXCEPT !.quantity = OrZero(ParseInt(t))])
  \/ \E r \in TextInputs : TxEdit([txForm EXCEPT !.reason = r])
  \/ HandleCreateTransaction
  \/ \E i \in 1..MaxPending, ok \in BOOLEAN : CreateTransactionResponse(i, ok)
  \/ CloseSuccess
  \/ \E i \in 1..MaxFetches, ok \in BOOLEAN, total \in {0, ItemsPerPage + 1} :
       TxLoadEnd(i, ok, total)
  \/ ServerReceive

\* ======================================================================
\*  Item editors: pages/ManageProduct/ManageProduct.tsx and the manage
\*  dialog of pages/Home/HomePage.tsx
\* ======================================================================
MaxTimers == 1     \* timers of one component armed and not yet fired

\* stock and threshold values of an item stored on the server
ServerNums == {0, 1}

\* Math.max(0, n)
Max0(n) == IF n > 0 THEN n ELSE 0

\* productService.updateProduct: backendData = {...itemData}, a truthy name
\* member is sent as title
UpdateProductBody(itemData) ==
  IF "name" \in DOMAIN itemData /\ Truthy(itemData.name)
  THEN [f \in (DOMAIN itemData \ {"name"}) \cup {"title"} |->
          IF f = "title" THEN itemData.name ELSE itemData[f]]
  ELSE itemData

\* ---- low-stock reports ----
\* ProductCard getStockStatus(stock, threshold)
getStockStatus(stock, threshold) ==
  IF stock = 0 THEN "Out of Stock"
  ELSE IF stock <= threshold THEN "Low Stock"
  ELSE "In Stock"

\* the status chip of a card of the Home list: HomePage passes no
\* low_stock_threshold prop, the card's default (10) is used
CardStatusOf(product) == getStockStatus(product.stock, 10)

\* Dashboard.tsx LOW_STOCK_THRESHOLD
LOW_STOCK_THRESHOLD == 10

\* dashboardService.getDashboardData: the filter that builds lowStockItems
InLowStockItems(product, lowStockThreshold) == product.stock <= lowStockThreshold

\* ManageProduct "Status do Estoque": the warning Alert is rendered
MpStockWarning(fd) ==
  fd.stock <= (IF fd.low_stock_threshold = 0 THEN 10 ELSE fd.low_stock_threshold)

\* x || '' for a string of a loaded product
OrEmpty(s) == IF s = UndefStr THEN << >> ELSE s

\* what the user leaves in an optional text field (edited in the HomePage
\* dialog; ManageProduct sends the loaded description back unedited)
OptionalInputs == {<< >>, <<CH>>}

\* ---- ManageProduct ----
NoProduct == [loaded |-> FALSE, stock |-> 0, low_stock_threshold |-> 0]

EmptyMpForm == [title |-> << >>, description |-> << >>, distributer |-> << >>,
                stock |-> 0, low_stock_threshold |-> 0]

\* the state after construction: the mount effect awaits getProduct
MpInit ==
  /\ mpLoading = TRUE /\ mpProduct = NoProduct /\ mpForm = EmptyMpForm
  /\ mpEditing = FALSE /\ mpSaving = FALSE /\ mpError = FALSE /\ mpSuccess = FALSE
  /\ mpPending = "fetch" /\ mpTimers = 0

\* the page is not mounted
MpQuiet ==
  /\ mpLoading = TRUE /\ mpProduct = NoProduct /\ mpForm = EmptyMpForm
  /\ mpEditing = FALSE /\ mpSaving = FALSE /\ mpError = FALSE /\ mpSuccess = FALSE
  /\ mpPending = "none" /\ mpTimers = 0

\* fetchProduct (mount effect) after its await
MpFetchEnd(ok, st, th) ==
  /\ UNCHANGED outsideEdit /\ UNCHANGED <<hmVars, homeVars>>
  /\ page = "manage" /\ WireFree
  /\ mpPending = "fetch"
  /\ mpPending' = "none"
  /\ IF ok
     THEN /\ mpProduct' = [loaded |-> TRUE, stock |-> st, low_stock_threshold |-> th]
          /\ mpForm' = [title |-> <<CH>>, description |-> OrEmpty(srv.item.description),
                        distributer |-> <<CH>>, stock |-> st,
                        low_stock_threshold |-> th]
          /\ UNCHANGED mpError
     ELSE /\ mpError' = TRUE
          /\ UNCHANGED <<mpProduct, mpForm>>
  /\ mpLoading' = FALSE
  /\ UNCHANGED <<mpEditing, mpSaving, mpSuccess, mpTimers, wire>>

\* the form is rendered once the product is loaded
MpFormShown == ~mpLoading /\ mpProduct.loaded

\* "Editar" / "Cancelar": setIsEditing(!isEditing)
MpToggleEditing ==
  /\ UNCHANGED outsideEdit /\ UNCHANGED <<hmVars, homeVars>>
  /\ page = "manage" /\ WireFree
  /\ MpFormShown
  /\ mpEditing' = ~mpEditing
  /\ UNCHANGED <<mpLoading, mpProduct, mpForm, mpSaving, mpError, mpSuccess, mpPending,
                 mpTimers, wire>>

\* handleInputChange (the fields are disabled unless isEditing); the
\* number inputs pass parseInt(e.target.value) || 0
MpEdit(fd) ==
  /\ UNCHANGED outsideEdit /\ UNCHANGED <<hmVars, homeVars>>
  /\ page = "manage" /\ WireFree
  /\ MpFormShown /\ mpEditing
  /\ fd # mpForm
  /\ mpForm' = fd
  /\ UNCHANGED <<mpLoading, mpProduct, mpEditing, mpSaving, mpError, mpSuccess, mpPending,
                 mpTimers, wire>>

\* handleSave: the validations that return before any request
MpSaveRejects(fd) ==
  \/ ~Truthy(Trim(fd.title))
  \/ ~Truthy(Trim(fd.distributer))
  \/ fd.stock < 0

\* handleSave: updateData
MpUpdateDataOf(fd) ==
  [title |-> Trim(fd.title), description |-> OrUndef(Trim(fd.description)),
   distributer |-> Trim(fd.distributer),
   stock |-> Max0(fd.stock), low_stock_threshold |-> Max0(fd.low_stock_threshold)]

\* handleSave up to its first await ("Salvar" is shown while isEditing and
\* disabled while saving)
MpHandleSave ==
  /\ UNCHANGED outsideEdit /\ UNCHANGED <<hmVars, homeVars>>
  /\ page = "manage" /\ WireFree
  /\ MpFormShown /\ mpEditing /\ ~mpSaving
  /\ IF MpSaveRejects(mpForm)
     THEN /\ mpError' = TRUE
          /\ UNCHANGED <<mpSaving, mpSuccess, mpPending, wire>>
     ELSE /\ mpSaving' = TRUE
          /\ mpError' = FALSE
          /\ mpSuccess' = FALSE
          /\ mpPending' = "update"
          /\ wire' = [kind |-> "updateItem", body |-> UpdateProductBody(MpUpdateDataOf(mpForm)),
                      entered |-> [stock |-> mpForm.stock,
                                   low_stock_threshold |-> mpForm.low_stock_threshold,
                                   description |-> mpForm.description]]
  /\ UNCHANGED <<mpLoading, mpProduct, mpForm, mpEditing, mpTimers>>

\* handleSave after updateProduct settled
MpUpdateResponse(ok) ==
  /\ UNCHANGED outsideEdit /\ UNCHANGED <<hmVars, homeVars>>
  /\ page = "manage" /\ WireFree
  /\ mpPending = "update"
  /\ IF ok
     THEN /\ mpPending' = "reload"
          /\ UNCHANGED <<mpError, mpSaving>>
     ELSE /\ mpPending' = "none"
          /\ mpError' = TRUE
          /\ mpSaving' = FALSE
  /\ UNCHANGED <<mpLoading, mpProduct, mpForm, mpEditing, mpSuccess, mpTimers, wire>>

\* handleSave after getProduct settled
MpReloadResponse(ok, st, th) ==
  /\ UNCHANGED outsideEdit /\ UNCHANGED <<hmVars, homeVars>>
  /\ page = "manage" /\ WireFree
  /\ mpPending = "reload"
  /\ mpPending' = "none"
  /\ IF ok
     THEN /\ mpTimers < MaxTimers
          /\ mpProduct' = [loaded |-> TRUE, stock |-> st, low_stock_threshold |-> th]
          /\ mpSuccess' = TRUE
          /\ mpEditing' = FALSE
          /\ mpTimers' = mpTimers + 1
          /\ UNCHANGED mpError
     ELSE /\ mpError' = TRUE
          /\ UNCHANGED <<mpProduct, mpSuccess, mpEditing, mpTimers>>
  /\ mpSaving' = FALSE
  /\ UNCHANGED <<mpLoading, mpForm, wire>>

\* setTimeout(() => setSuccess(false), 3000)
MpSuccessTimeout ==
  /\ UNCHANGED outsideEdit /\ UNCHANGED <<hmVars, homeVars>>
  /\ page = "manage" /\ WireFree
  /\ mpTimers > 0
  /\ mpTimers' = mpTimers - 1
  /\ mpSuccess' = FALSE
  /\ UNCHANGED <<mpLoading, mpProduct, mpForm, mpEditing, mpSaving, mpError, mpPending,
                 wire>>

\* ---- HomePage manage dialog ----
EmptyHmForm == [name |-> << >>, description |-> << >>, distributer |-> << >>,
                stock |-> 0, price |-> 0]

HmInit ==
  /\ manageDialogOpen = FALSE /\ selectedProductId = 0 /\ hmForm = EmptyHmForm
  /\ updateLoading = FALSE /\ updateError = FALSE /\ updateSuccess = FALSE
  /\ hmPending = "none" /\ hmTimers = << >>

\* the ids of the products a non-empty list shows
ProductIds == {1, 2}

\* handleManageProduct: a card of the rendered list is clicked
HandleManageProduct(productId, st) ==
  /\ UNCHANGED outsideEdit /\ UNCHANGED mpVars
  /\ page = "home" /\ WireFree
  /\ ~manageDialogOpen
  /\ ~homeLoading /\ homeProducts # 0
  /\ hmForm' = [name |-> <<CH>>, description |-> OrEmpty(srv.item.description),
                distributer |-> <<CH>>, stock |-> st, price |-> 0]
  /\ selectedProductId' = productId
  /\ updateError' = FALSE
  /\ updateSuccess' = FALSE
  /\ manageDialogOpen' = TRUE
  /\ UNCHANGED <<updateLoading, hmPending, hmTimers, homeVars, wire>>

\* the onChange handlers of the dialog; the number inputs pass
\* Number(e.target.value) || 0
HmEdit(fd) ==
  /\ UNCHANGED outsideEdit /\ UNCHANGED mpVars
  /\ page = "home" /\ WireFree
  /\ manageDialogOpen
  /\ fd # hmForm
  /\ hmForm' = fd
  /\ UNCHANGED <<manageDialogOpen, selectedProductId, updateLoading, updateError,
                 updateSuccess, hmPending, hmTimers, homeVars, wire>>

HmUpdateRejects_NoStockCheck(fd) ==
  \/ ~Truthy(Trim(fd.name))
  \/ ~Truthy(Trim(fd.distributer))
  \/ fd.price < 0

\* handleUpdateProduct: the validations that return before any request
HmUpdateRejects(fd) ==
  \/ ~Truthy(Trim(fd.name))
  \/ ~Truthy(Trim(fd.distributer))
  \/ fd.stock < 0
  \/ fd.price < 0

\* handleUpdateProduct: backendData (no low_stock_threshold member)
HmBackendDataOf(fd) ==
  [title |-> Trim(fd.name), description |-> OrUndef(Trim(fd.description)),
   distributer |-> Trim(fd.distributer),
   stock |-> Max0(fd.stock), low_stock_threshold |-> UndefNum, price |-> Max0(fd.price)]

\* the disabled attribute of "Update Product"
UpdateDisabled == updateLoading \/ ~Truthy(hmForm.name) \/ ~Truthy(hmForm.distributer)

\* handleUpdateProduct up to its first await
HandleUpdateProduct ==
  /\ UNCHANGED outsideEdit /\ UNCHANGED mpVars
  /\ page = "home" /\ WireFree
  /\ manageDialogOpen /\ ~UpdateDisabled
  /\ selectedProductId # 0
  /\ IF HmUpdateRejects(hmForm)
     THEN /\ updateError' = TRUE
          /\ UNCHANGED <<updateLoading, updateSuccess, hmPending, wire>>
     ELSE /\ updateLoading' = TRUE
          /\ updateError' = FALSE
          /\ updateSuccess' = FALSE
          /\ hmPending' = "update"
          /\ wire' = [kind |-> "updateItem", body |-> UpdateProductBody(HmBackendDataOf(hmForm)),
                      entered |-> [stock |-> hmForm.stock,
                                   low_stock_threshold |-> UndefNum,
                                   description |-> hmForm.description]]
  /\ UNCHANGED <<manageDialogOpen, selectedProductId, hmForm, hmTimers, homeVars>>

\* handleUpdateProduct after updateProduct settled; success calls
\* fetchProducts()
HmUpdateResponse(ok) ==
  /\ UNCHANGED outsideEdit /\ UNCHANGED mpVars
  /\ page = "home" /\ WireFree
  /\ hmPending = "update"
  /\ IF ok
     THEN /\ FetchProductsStart
          /\ hmPending' = "fetch"
          /\ UNCHANGED <<updateError, updateLoading>>
     ELSE /\ hmPending' = "none"
          /\ updateError' = TRUE
          /\ updateLoading' = FALSE
          /\ UNCHANGED homeVars
  /\ UNCHANGED <<manageDialogOpen, selectedProductId, hmForm, updateSuccess, hmTimers,
                 wire>>

\* handleUpdateProduct after fetchProducts() returned (it never rejects)
HmFetchResponse(ok, d) ==
  /\ UNCHANGED outsideEdit /\ UNCHANGED mpVars
  /\ page = "home" /\ WireFree
  /\ hmPending = "fetch"
  /\ Len(hmTimers) < MaxTimers
  /\ FetchProductsEnd(ok, d)
  /\ hmPending' = "none"
  /\ updateSuccess' = TRUE
  /\ hmTimers' = Append(hmTimers, selectedProductId)
  /\ updateLoading' = FALSE
  /\ UNCHANGED <<manageDialogOpen, selectedProductId, hmForm, updateError, wire>>

\* handleCloseManageDialog
CloseManageDialogEffect ==
  /\ manageDialogOpen' = FALSE
  /\ selectedProductId' = 0
  /\ hmForm' = EmptyHmForm
  /\ updateError' = FALSE
  /\ updateSuccess' = FALSE

\* Dialog onClose (backdrop, Escape) and "Cancel"
HandleCloseManageDialog ==
  /\ UNCHANGED outsideEdit /\ UNCHANGED mpVars
  /\ page = "home" /\ WireFree
  /\ manageDialogOpen
  /\ CloseManageDialogEffect
  /\ UNCHANGED <<updateLoading, hmPending, hmTimers, homeVars, wire>>

\* setTimeout(() => handleCloseManageDialog(), 1500) fires
HmCloseTimeout ==
  /\ UNCHANGED outsideEdit /\ UNCHANGED mpVars
  /\ page = "home" /\ WireFree
  /\ hmTimers # << >>
  /\ hmTimers' = Tail(hmTimers)
  /\ CloseManageDialogEffect
  /\ UNCHANGED <<updateLoading, hmPending, homeVars, wire>>

EditInit ==
  \/ page = "manage" /\ MpInit /\ HmInit /\ homeLoading = TRUE /\ homeProducts = 0
       /\ homeFetches = 0
  \/ page = "home" /\ MpQuiet /\ HmInit /\ homeLoading = FALSE
       /\ homeProducts \in DataSets /\ homeFetches = 0

EditQuiet == MpQuiet /\ HmInit

EditNext ==
  \/ \E ok \in BOOLEAN, st \in ServerNums, th \in ServerNums : MpFetchEnd(ok, st, th)
  \/ MpToggleEditing
  \/ \E v \in TextInputs : MpEdit([mpForm EXCEPT !.title = v])
  \/ \E v \in TextInputs : MpEdit([mpForm EXCEPT !.distributer = v])
  \/ \E t \in NumTexts : MpEdit([mpForm EXCEPT !.stock = OrZero(ParseInt(t))])
  \/ \E t \in NumTexts : MpEdit([mpForm EXCEPT !.low_stock_threshold = OrZero(ParseInt(t))])
  \/ MpHandleSave
  \/ \E ok \in BOOLEAN : MpUpdateResponse(ok)
  \/ \E ok \in BOOLEAN, st \in ServerNums, th \in ServerNums : MpReloadResponse(ok, st, th)
  \/ MpSuccessTimeout
  \/ \E productId \in ProductIds, st \in ServerNums : HandleManageProduct(productId, st)
  \/ \E v \in TextInputs : HmEdit([hmForm EXCEPT !.name = v])
  \/ \E v \in TextInputs : HmEdit([hmForm EXCEPT !.distributer = v])
  \/ \E v \in OptionalInputs : HmEdit([hmForm EXCEPT !.description = v])
  \/ \E n \in NumInputs : HmEdit([hmForm EXCEPT !.stock = OrZero(n)])
  \/ \E n \in NumInputs : HmEdit([hmForm EXCEPT !.price = OrZero(n)])
  \/ HandleUpdateProduct
  \/ \E ok \in BOOLEAN : HmUpdateResponse(ok)
  \/ \E ok \in BOOLEAN, d \in DataSets : HmFetchResponse(ok, d)
  \/ HandleCloseManageDialog
  \/ HmCloseTimeout
  \/ ServerReceive

\* ======================================================================
\*  Export: pages/ExportData/ExportData.tsx and the export buttons of
\*  pages/Dashboard/Dashboard.tsx
\* ======================================================================
MaxDownloads == 2   \* files downloaded in one run

\* the ids of exportItems, the cases of the switch in handleExport
ExportTypes == {"items", "stock-transactions", "activity-logs", "full-report"}

\* handleExport: the literal each case puts in front of the date
PrefixOf(exportType) ==
  CASE exportType = "items" -> "produtos_"
    [] exportType = "stock-transactions" -> "transacoes_estoque_"
    [] exportType = "activity-logs" -> "historico_atividades_"
    [] exportType = "full-report" -> "relatorio_completo_"

\* dates the clock can show
Dates == {[y |-> 2025, m |-> 1, d |-> 9], [y |-> 2025, m |-> 12, d |-> 31]}

\* new Date().toISOString().split('T')[0]: four digits, two digits, two
\* digits, zero padded, joined by "-" (written -1)
IsoDateOf(date) ==
  <<date.y \div 1000, (date.y \div 100) % 10, (date.y \div 10) % 10, date.y % 10, -1,
    date.m \div 10, date.m % 10, -1, date.d \div 10, date.d % 10>>

\* `${prefix}${date}.xlsx`
XlsxName(prefix, date) == [prefix |-> prefix, date |-> IsoDateOf(date), ext |-> ".xlsx"]

\* before: files downloaded before the call ended; fulfilled: probe
\* requests that succeeded
NoExEvent == [origin |-> "none", type |-> "none", outcome |-> "none", before |-> 0,
              fulfilled |-> 0]

\* the useState initial values; the mount effect of the export page runs loadData
ExInit ==
  /\ backendStatus = "checking" /\ exLoading = FALSE /\ exError = FALSE
  /\ exSuccess = FALSE /\ exProbing = (page = "export") /\ exPending = << >>
  /\ downloads = << >> /\ today \in Dates /\ exEvent = NoExEvent
  /\ options = [lowStockOnly |-> FALSE]

\* the export page is not mounted
ExQuiet == ExInit /\ today.d = 9

BackendStatusOf_Both(categoriesOk, distributorsOk) ==
  IF categoriesOk /\ distributorsOk THEN "connected" ELSE "disconnected"

\* anySucceeded ? 'connected' : 'disconnected'
BackendStatusOf(categoriesOk, distributorsOk) ==
  IF categoriesOk \/ distributorsOk THEN "connected" ELSE "disconnected"

\* loadData after Promise.allSettled([getUserCategories(), getUserDistributors()])
ProbeSettles(categoriesOk, distributorsOk) ==
  /\ UNCHANGED outsideExport
  /\ page = "export" /\ exProbing
  /\ exProbing' = FALSE
  /\ backendStatus' = BackendStatusOf(categoriesOk, distributorsOk)
  /\ exEvent' = [NoExEvent EXCEPT !.origin = "probe",
                   !.fulfilled = (IF categoriesOk THEN 1 ELSE 0)
                                 + (IF distributorsOk THEN 1 ELSE 0)]
  /\ UNCHANGED <<exLoading, exError, exSuccess, exPending, downloads, today, options>>

\* the disabled attribute of every button that calls handleExport
ExportDisabled == exLoading \/ backendStatus # "connected"

\* handleExport up to its await. viaButton: the call comes from one of the
\* buttons (ids of exportItems, not disabled); otherwise the function is
\* called as such, with any argument
HandleExport(exportType, viaButton) ==
  /\ UNCHANGED outsideExport
  /\ page = "export"
  /\ viaButton => (~ExportDisabled /\ exportType \in ExportTypes)
  /\ IF backendStatus # "connected"
     THEN /\ exError' = TRUE
          /\ exEvent' = [origin |-> "export", type |-> exportType, outcome |-> "refused",
                         before |-> Len(downloads), fulfilled |-> 0]
          /\ UNCHANGED <<exLoading, exPending>>
     ELSE IF exportType \notin ExportTypes
     THEN \* default: throw; catch: setError; finally: setLoading(false)
          /\ exLoading' = FALSE
          /\ exError' = TRUE
          /\ exEvent' = [origin |-> "export", type |-> exportType,
                         outcome |-> "unsupported", before |-> Len(downloads), fulfilled |-> 0]
          /\ UNCHANGED exPending
     ELSE /\ Len(exPending) < MaxPending
          /\ exLoading' = TRUE
          /\ exError' = FALSE
          /\ exPending' = Append(exPending,
               [type |-> exportType, origin |-> "export",
                lowStockOnly |-> (exportType = "items" /\ options.lowStockOnly)])
          /\ exEvent' = NoExEvent
  /\ UNCHANGED <<backendStatus, exSuccess, exProbing, downloads, today>>

\* a button of the list or "Relatorio Completo" calls handleExport and
\* nothing else; or the function is called as such
ClickExport(exportType, viaButton) ==
  /\ HandleExport(exportType, viaButton)
  /\ UNCHANGED options

\* "Estoque Baixo": setOptions({ ...options, lowStockOnly: true }), then
\* handleExport('items') in the same event handler; the state set by
\* setOptions is seen by the next render, handleExport reads the options of
\* the render the click belongs to
ClickLowStock ==
  /\ options' = [options EXCEPT !.lowStockOnly = TRUE]
  /\ HandleExport("items", TRUE)

\* the checkbox "Apenas estoque baixo" and the Chip that removes the filter
SetLowStockOnly(checked) ==
  /\ UNCHANGED outsideExport
  /\ page = "export"
  /\ checked # options.lowStockOnly
  /\ options' = [options EXCEPT !.lowStockOnly = checked]
  /\ exEvent' = NoExEvent
  /\ UNCHANGED <<backendStatus, exLoading, exError, exSuccess, exProbing, exPending,
                 downloads, today>>

\* handleExport after its await: downloadBlob and setSuccess, or catch; finally
ExportResponse(i, ok) ==
  /\ UNCHANGED outsideExport
  /\ page = "export"
  /\ i \in 1..Len(exPending) /\ exPending[i].origin = "export"
  /\ exPending' = RemoveAt(exPending, i)
  /\ IF ok
     THEN /\ Len(downloads) < MaxDownloads
          /\ downloads' = Append(downloads, XlsxName(PrefixOf(exPending[i].type), today))
          /\ exSuccess' = TRUE
          /\ UNCHANGED exError
     ELSE /\ exError' = TRUE
          /\ UNCHANGED <<downloads, exSuccess>>
  /\ exLoading' = FALSE
  /\ exEvent' = [origin |-> "export", type |-> exPending[i].type,
                 outcome |-> IF ok THEN "ok" ELSE "failed", before |-> Len(downloads), fulfilled |-> 0]
  /\ UNCHANGED <<backendStatus, exProbing, today, options>>

\* the Snackbars of the export page close
CloseExportAlert ==
  /\ UNCHANGED outsideExport
  /\ page = "export"
  /\ exError \/ exSuccess
  /\ exError' = FALSE /\ exSuccess' = FALSE
  /\ exEvent' = NoExEvent
  /\ UNCHANGED <<backendStatus, exLoading, exProbing, exPending, downloads, today,
                 options>>

\* midnight passes
ClockMoves ==
  /\ UNCHANGED outsideExport
  /\ today' \in Dates \ {today}
  /\ exEvent' = NoExEvent
  /\ UNCHANGED <<backendStatus, exLoading, exError, exSuccess, exProbing, exPending,
                 downloads, options>>

\* Dashboard handleExportLowStock ("items") and handleExportFullReport up to
\* their await; the buttons are part of the loaded dashboard
HandleDashExport(exportType) ==
  /\ UNCHANGED outsideExport
  /\ page = "dashboard" /\ ~dashLoading /\ ~dashError /\ dashData.loaded
  /\ Len(exPending) < MaxPending
  /\ exPending' = Append(exPending, [type |-> exportType, origin |-> "dashboard",
                                     lowStockOnly |-> (exportType = "items")])
  /\ exEvent' = NoExEvent
  /\ UNCHANGED <<backendStatus, exLoading, exError, exSuccess, exProbing, downloads,
                 today, options>>

\* the same handlers after their await: downloadBlob, or catch (console.error)
DashExportResponse(i, ok) ==
  /\ UNCHANGED outsideExport
  /\ page = "dashboard"
  /\ i \in 1..Len(exPending) /\ exPending[i].origin = "dashboard"
  /\ exPending' = RemoveAt(exPending, i)
  /\ IF ok
     THEN /\ Len(downloads) < MaxDownloads
          /\ downloads' = Append(downloads,
               XlsxName(IF exPending[i].type = "items" THEN "estoque_baixo_"
                        ELSE "relatorio_completo_", today))
     ELSE UNCHANGED downloads
  /\ exEvent' = [origin |-> "dashboard", type |-> exPending[i].type,
                 outcome |-> IF ok THEN "ok" ELSE "failed", before |-> Len(downloads), fulfilled |-> 0]
  /\ UNCHANGED <<backendStatus, exLoading, exError, exSuccess, exProbing, today, options>>

ExportNext ==
  \/ \E categoriesOk \in BOOLEAN, distributorsOk \in BOOLEAN :
       ProbeSettles(categoriesOk, distributorsOk)
  \/ \E t \in ExportTypes \cup {"other"}, viaButton \in BOOLEAN : ClickExport(t, viaButton)
  \/ ClickLowStock
  \/ \E checked \in BOOLEAN : SetLowStockOnly(checked)
  \/ \E i \in 1..MaxPending, ok \in BOOLEAN : ExportResponse(i, ok)
  \/ CloseExportAlert
  \/ ClockMoves
  \/ \E t \in {"items", "full-report"} : HandleDashExport(t)
  \/ \E i \in 1..MaxPending, ok \in BOOLEAN : DashExportResponse(i, ok)
  \/ \E hardOk \in BOOLEAN, softOk \in BOOLEAN, d \in DataSets :
       LoadDashboardEnd(hardOk, softOk, d, 0, 0)

\* ======================================================================
\*  Dashboard aggregates: dashboardService in api/axiosconfig.ts
\* ======================================================================
MaxProducts == 2    \* products getUserProducts returns

\* sell_price and purchase_price are optional members of Item
PriceValues == {UndefNum, 0, 1, 3}
StockValues == {0, 1, 2}
ProductValues == [sell_price : PriceValues, purchase_price : PriceValues \ {3},
                  stock : StockValues]
ProductLists == UNION {[1..n -> ProductValues] : n \in 0..MaxProducts}
Limits == {0, 1, 2, 5}

\* JavaScript truthiness of an optional number
TruthyNum(n) == n # UndefNum /\ n # NaN /\ n # 0

PriceOf_PurchaseFirst(product) ==
  IF TruthyNum(product.purchase_price) THEN product.purchase_price
  ELSE IF TruthyNum(product.sell_price) THEN product.sell_price
  ELSE 0

\* product.sell_price || product.purchase_price || 0
PriceOf(product) ==
  IF TruthyNum(product.sell_price) THEN product.sell_price
  ELSE IF TruthyNum(product.purchase_price) THEN product.purchase_price
  ELSE 0

\* price * product.stock
ValueOf(product) == PriceOf(product) * product.stock

\* allProducts.reduce((sum, product) => sum + price * product.stock, 0)
RECURSIVE ReduceValue(_, _)
ReduceValue(sum, products) ==
  IF products = << >> THEN sum
  ELSE ReduceValue(sum + ValueOf(Head(products)), Tail(products))

\* Array.prototype.sort with the comparator of getTopProductsByValue
\* (bPrice * b.stock) - (aPrice * a.stock): a stable sort, so an element
\* goes behind the elements whose value is not smaller
RECURSIVE InsertByValue(_, _)
InsertByValue(sorted, product) ==
  IF sorted = << >> THEN <<product>>
  ELSE IF ValueOf(Head(sorted)) >= ValueOf(product)
  THEN <<Head(sorted)>> \o InsertByValue(Tail(sorted), product)
  ELSE <<product>> \o sorted

RECURSIVE SortByValue(_)
SortByValue(products) ==
  IF products = << >> THEN << >>
  ELSE InsertByValue(SortByValue(SubSeq(products, 1, Len(products) - 1)),
                     products[Len(products)])

\* Array.prototype.slice(0, end)
Slice0(arr, end) ==
  LET stop == IF end < 0 THEN Max0(Len(arr) + end)
              ELSE IF end > Len(arr) THEN Len(arr) ELSE end
  IN SubSeq(arr, 1, stop)

AggInit ==
  agg \in [products : ProductLists, call : {"none"}, limit : {0}, totalValue : {0},
           totalProducts : {0}, top : {<< >>}]

AggQuiet == agg = [products |-> << >>, call |-> "none", limit |-> 0, totalValue |-> 0,
                   totalProducts |-> 0, top |-> << >>]

\* getDashboardData after Promise.all resolved: totalValue, totalProducts
GetDashboardData ==
  /\ UNCHANGED outsideAgg
  /\ agg' = [agg EXCEPT !.call = "getDashboardData",
                        !.totalValue = ReduceValue(0, agg.products),
                        !.totalProducts = Len(agg.products)]

\* getTopProductsByValue after getUserProducts resolved
GetTopProductsByValue(limit) ==
  /\ UNCHANGED outsideAgg
  /\ agg' = [agg EXCEPT !.call = "getTopProductsByValue", !.limit = limit,
                        !.top = Slice0(SortByValue(agg.products), limit)]

AggNext ==
  \/ GetDashboardData
  \/ \E limit \in Limits : GetTopProductsByValue(limit)

\* ======================================================================
\*  QRScanner: contexts/components/QRScanner/QRScanner.tsx
\* ======================================================================
MaxSessions == 3    \* times the scanner dialog is opened
MaxCloses == 2      \* onClose calls counted after one decode

\* open: the prop (qrScannerOpen of the parent); camera: selectedCamera
\* (0 = ''); scanning, error: the component state; lib: the state of the
\* Html5Qrcode instance; timers: setTimeout(handleClose, 1000) not yet
\* fired; sessions: times the dialog was opened; onScanCalls: onScan calls
\* of the current session; onCloseCalls: onClose calls since the last decode
ScannerInit ==
  scanner = [open |-> FALSE, camera |-> 0, scanning |-> FALSE, error |-> FALSE,
             lib |-> "NOT_STARTED", timers |-> 0, sessions |-> 0,
             onScanCalls |-> 0, decoded |-> FALSE, onCloseCalls |-> 0]

\* the parent opens the dialog (setQrScannerOpen(true))
OpenScanner ==
  /\ UNCHANGED outsideScanner
  /\ ~scanner.open /\ scanner.sessions < MaxSessions
  /\ scanner' = [scanner EXCEPT !.open = TRUE, !.sessions = @ + 1, !.onScanCalls = 0]

\* initializeCameras (effect of open, "Tentar novamente") after its awaits
CamerasSettle(ok) ==
  /\ UNCHANGED outsideScanner
  /\ scanner.open
  /\ scanner' = IF ok THEN [scanner EXCEPT !.camera = 1]
                ELSE [scanner EXCEPT !.error = TRUE]

\* handleStartScanning: startScanning up to await html5QrCode.start
HandleStartScanning ==
  /\ UNCHANGED outsideScanner
  /\ scanner.open /\ scanner.camera # 0 /\ ~scanner.scanning
  /\ scanner.lib = "NOT_STARTED"
  /\ scanner' = [scanner EXCEPT !.scanning = TRUE, !.error = FALSE, !.lib = "STARTING"]

\* startScanning after html5QrCode.start settled
StartSettles(ok) ==
  /\ UNCHANGED outsideScanner
  /\ scanner.lib = "STARTING"
  /\ scanner' = IF ok THEN [scanner EXCEPT !.lib = "SCANNING"]
                ELSE [scanner EXCEPT !.lib = "NOT_STARTED", !.error = TRUE,
                                     !.scanning = FALSE]

\* the success callback of start: onScan(decodedText), stopScanning() up to
\* its await (Html5Qrcode.stop() ends the scan loop when it is called),
\* setTimeout(handleClose, 1000)
DecodeCallback ==
  /\ UNCHANGED outsideScanner
  /\ scanner.lib = "SCANNING"
  /\ scanner.timers < MaxTimers
  /\ scanner' = [scanner EXCEPT !.onScanCalls = @ + 1, !.lib = "STOPPING",
                                !.timers = @ + 1, !.decoded = TRUE, !.onCloseCalls = 0]

\* handleStopScanning: the "Parar" button
HandleStopScanning ==
  /\ UNCHANGED outsideScanner
  /\ scanner.open /\ scanner.scanning /\ scanner.lib = "SCANNING"
  /\ scanner' = [scanner EXCEPT !.lib = "STOPPING"]

\* stopScanning after its await: finally setScanning(false)
StopCompletes ==
  /\ UNCHANGED outsideScanner
  /\ scanner.lib = "STOPPING"
  /\ scanner' = [scanner EXCEPT !.lib = "NOT_STARTED", !.scanning = FALSE]

\* handleClose: await cleanup() (stop, clear, the instance is dropped, error
\* and scanning reset), then onClose(), which is handleQRScannerClose of the
\* parent
HandleCloseEffect(byTimer) ==
  [scanner EXCEPT !.lib = "NOT_STARTED", !.open = FALSE, !.scanning = FALSE,
                  !.error = FALSE,
                  !.timers = IF byTimer THEN @ - 1 ELSE @,
                  !.onCloseCalls = IF scanner.decoded THEN @ + 1 ELSE @]

\* the close button of the title, the backdrop or Escape
UserClosesScanner ==
  /\ UNCHANGED outsideScanner
  /\ scanner.open
  /\ scanner.onCloseCalls < MaxCloses
  /\ scanner' = HandleCloseEffect(FALSE)

\* the timer armed by the success callback fires
ScannerTimerFires ==
  /\ UNCHANGED outsideScanner
  /\ scanner.timers > 0
  /\ scanner.onCloseCalls < MaxCloses
  /\ scanner' = HandleCloseEffect(TRUE)

ScannerNext ==
  \/ OpenScanner
  \/ \E ok \in BOOLEAN : CamerasSettle(ok)
  \/ HandleStartScanning
  \/ \E ok \in BOOLEAN : StartSettles(ok)
  \/ DecodeCallback
  \/ HandleStopScanning
  \/ StopCompletes
  \/ UserClosesScanner
  \/ ScannerTimerFires

\* ======================================================================
\*  Specifications
\* ======================================================================
\* the authentication state of a signed-in session at rest
AuthQuiet ==
  /\ storage = LoggedInStorage(1, 1)
  /\ authHeader = 1
  /\ calls = << >>
  /\ refreshPosts = 0
  /\ completed = NoCompleted
  /\ ctxUser = TRUE
  /\ ctxLoading = FALSE

\* the records of the REST API when a component other than the
\* Stock Transactions page is studied
SrvQuiet == SrvInit /\ srv.tx.quantity = 1

InitAuth ==
  /\ AuthInit /\ wire = None /\ WizInit /\ HomeInit /\ ViewsQuiet /\ TxInit /\ EditQuiet
  /\ SrvQuiet /\ ExQuiet /\ AggQuiet /\ ScannerInit /\ RouteInit

SpecAuth == InitAuth /\ [][AuthNext]_vars

InitWizard ==
  /\ AuthQuiet /\ wire = None /\ WizInit /\ HomeLoaded /\ ViewsQuiet /\ TxInit /\ EditQuiet
  /\ SrvQuiet /\ ExQuiet /\ AggQuiet /\ ScannerInit /\ RouteInit

SpecWizard == InitWizard /\ [][WizardNext]_vars

InitViews ==
  /\ AuthQuiet /\ wire = None /\ WizInit /\ ViewsInit /\ TxInit /\ EditQuiet
  /\ SrvQuiet /\ ExQuiet /\ AggQuiet /\ ScannerInit /\ RouteInit

SpecViews == InitViews /\ [][ViewsNext]_vars

\* the Stock Transactions page, mounted without ?item=
InitTx ==
  /\ AuthQuiet /\ wire = None /\ WizInit /\ ViewsInit /\ page = "stock"
  /\ stFilterItem = 0 /\ TxInit /\ EditQuiet
  /\ SrvQuiet /\ ExQuiet /\ AggQuiet /\ ScannerInit /\ RouteInit

SpecTx == InitTx /\ [][TxNext]_vars

\* the same page, a transaction of the list being edited
InitTxEdit ==
  /\ AuthQuiet /\ wire = None /\ WizInit /\ ViewsInit /\ page = "stock"
  /\ stFilterItem = 0 /\ TxInit /\ EditQuiet
  /\ SrvInit /\ ExQuiet /\ AggQuiet /\ ScannerInit /\ RouteInit

SpecTxEdit == InitTxEdit /\ [][TeNext]_vars

\* the export page, or the dashboard, just mounted
InitExport ==
  /\ AuthQuiet /\ wire = None /\ WizInit /\ TxInit /\ EditQuiet
  /\ SrvQuiet
  /\ \/ page = "export" /\ ViewsIdle /\ HomeInit
     \/ page = "dashboard" /\ ViewsInit
  /\ ExInit /\ AggQuiet /\ RouteInit /\ ScannerInit

SpecExport == InitExport /\ [][ExportNext]_vars

InitEdit ==
  /\ AuthQuiet /\ wire = None /\ WizInit /\ ViewsIdle /\ TxInit /\ EditInit
  /\ SrvQuiet /\ ExQuiet /\ AggQuiet /\ ScannerInit /\ RouteInit

SpecEdit == InitEdit /\ [][EditNext]_vars

InitAgg ==
  /\ AuthQuiet /\ wire = None /\ WizInit /\ HomeInit /\ ViewsQuiet /\ TxInit /\ EditQuiet
  /\ SrvQuiet /\ ExQuiet /\ ScannerInit /\ RouteInit
  /\ AggInit

SpecAgg == InitAgg /\ [][AggNext]_vars

InitScanner ==
  /\ AuthQuiet /\ wire = None /\ WizInit /\ HomeInit /\ ViewsQuiet /\ TxInit /\ EditQuiet
  /\ SrvQuiet /\ ExQuiet /\ AggQuiet /\ RouteInit
  /\ ScannerInit

SpecScanner == InitScanner /\ [][ScannerNext]_vars

InitRoutes ==
  /\ AuthInit /\ wire = None /\ WizInit /\ HomeInit /\ ViewsQuiet /\ TxInit /\ EditQuiet
  /\ SrvQuiet /\ ExQuiet /\ AggQuiet /\ ScannerInit
  /\ RouteInit

SpecRoutes == InitRoutes /\ [][RoutesNext]_vars

\* ======================================================================
\*  Properties
\* ======================================================================

\* C1: for every request in flight through apiClient the interceptor has
\* started at most one token refresh and re-sent the request at most once,
\* and a re-sent request answered with 401 is rejected (no further refresh
\* or re-send).
C1_SingleRefreshSingleResend ==
  /\ \A i \in 1..Len(calls) :
       /\ calls[i].refreshes <= 1
       /\ calls[i].resends <= 1
       /\ (calls[i].resends = 1 /\ calls[i].pc # "sent" /\ calls[i].lastStatus = 401)
             => calls[i].pc = "rejected"
  /\ completed.refreshes <= 1
  /\ completed.resends <= 1
  /\ (completed.resends = 1 /\ completed.lastStatus = 401) => completed.result = "rejected"

\* a request was refreshed, re-sent, answered 401 again and rejected
C1_Witness ==
  completed.result = "rejected" /\ completed.resends = 1 /\ completed.lastStatus = 401

\* C2: while one request is handled, at most one POST /api/auth/refresh is
\* sent, also when the refresh call itself is answered with 401.
C2_OneRefreshAttempt == refreshPosts <= 1

\* C3: once a request was answered 401 and the refresh did not succeed, the
\* session is not authenticated any more and ProtectedRoute navigates to
\* /signin.
C3_FailedRefreshForcesLogin ==
  (completed.refreshResult = "failed" /\ ~ctxLoading)
     => (~isAuth /\ ProtectedRoute = "navigate_signin")

\* C4: activeStep stays in {0,1,2}; it grows only by one and only when the
\* current step has no validation error; Back is offered on steps 1 and 2
\* whatever the form holds and lowers the step by one; a larger drop is the
\* reset of a closing dialog.
C4_StepInRange ==
  /\ activeStep \in {0, 1, 2}
  /\ (activeStep \in {1, 2} => BackVisible)

C4_StepMove ==
  /\ activeStep' > activeStep =>
        /\ activeStep' = activeStep + 1
        /\ getStepErrors(activeStep, formData) = {}
  /\ (activeStep' < activeStep /\ isDialogOpen') => activeStep' = activeStep - 1
  /\ (activeStep' < activeStep /\ ~isDialogOpen') => activeStep' = 0

C4_WizardSteps == [](C4_StepInRange) /\ [][C4_StepMove]_vars

\* Back was taken from the last step although the form is invalid there
C4_Witness ==
  isDialogOpen /\ activeStep = 1 /\ getStepErrors(2, formData) # {}

\* C5: a handleSubmit whose create request succeeded closes the dialog and
\* resets the form; one whose create request failed leaves the dialog and
\* the form as they are, shows the error and no success message.
C5_SubmitStep ==
  /\ settled' = "created" =>
        (~isDialogOpen' /\ formData' = EmptyForm /\ qrAlert' = "success")
  /\ settled' = "failed" =>
        (isDialogOpen' = isDialogOpen /\ formData' = formData /\ qrAlert' = "error")

C5_SubmitTerminalOnlyOnSuccess == [][C5_SubmitStep]_vars

\* C6: when a load of Home, Dashboard or Stock Transactions fails, the view
\* shows an error and the data of the previous successful load stays.
C6_FailedLoadStep ==
  \A v \in {"home", "dashboard", "stock"} :
    (loadEvent'.view = v /\ loadEvent'.outcome = "failed")
       => (ViewError(v)' /\ ViewData(v)' = ViewData(v))

C6_FailureSurfacedDataKept == [][C6_FailedLoadStep]_vars

\* C7: a load of Home, Dashboard or Stock Transactions that settles leaves
\* Loading: with the data of the response when every request succeeded,
\* with a visible error when one failed.
C7_SettledLoadStep ==
  \A v \in {"home", "dashboard", "stock"} :
    (loadEvent'.view = v) =>
       /\ ~ViewLoading(v)'
       /\ loadEvent'.outcome = "ok" => ViewData(v)' = loadEvent'.data
       /\ loadEvent'.outcome = "failed" => ViewError(v)'

C7_LoadLeavesLoading == [][C7_SettledLoadStep]_vars

\* C8: once no load is in flight and the load issued last was answered
\* successfully, Stock Transactions and Activity Log show the rows of the
\* current filter and page.
C8_LatestResultsOnly ==
  /\ (page = "stock" /\ stLoads = << >> /\ stLatestOk) => stRows = StQuery
  /\ (page = "activity" /\ alLoads = << >> /\ alLatestOk) => alRows = AlQuery

C9_ItemWriteKinds == {"createProduct", "createFromQR", "updateItem"}

\* C9: an item create or update request is sent only when the stock and the
\* low-stock threshold that were entered are not negative, and it carries no
\* negative stock or threshold.
C9_NoNegativeSent ==
  wire.kind \in C9_ItemWriteKinds =>
    /\ wire.entered.stock >= 0
    /\ wire.entered.low_stock_threshold = UndefNum \/ wire.entered.low_stock_threshold >= 0
    /\ wire.body.stock >= 0
    /\ wire.body.low_stock_threshold = UndefNum \/ wire.body.low_stock_threshold >= 0

\* C10: a create-transaction request carries a quantity > 0, one of the three
\* transaction types, a non-empty reason and a selected item; while the form
\* lacks one of these no step issues a create request.
C10_RequestValid ==
  wire.kind = "createTransaction" =>
    /\ wire.body.quantity > 0
    /\ wire.body.transaction_type \in {"loss", "damage", "return"}
    /\ wire.body.reason # << >>
    /\ wire.body.item_id # 0

C10_InvalidForm ==
  \/ txForm.quantity <= 0
  \/ txForm.transaction_type \notin {"loss", "damage", "return"}
  \/ txForm.reason = << >>
  \/ txForm.item_id = 0

C10_RejectStep == (C10_InvalidForm /\ wire = None) => wire'.kind # "createTransaction"

C10_ValidCreateRequests == [](C10_RequestValid) /\ [][C10_RejectStep]_vars

\* a request was issued for a return of two units
C10_Witness ==
  /\ wire.kind = "createTransaction"
  /\ wire.body.quantity = 2
  /\ wire.body.transaction_type = "return"

\* C11: every update request sent by handleUpdateTransaction carries only
\* annotation fields (reason, notes, cost_impact, reference_number), never
\* quantity, transaction_type or item_id, and these three fields of the stored
\* transaction never change.
C11_FrozenFields == {"quantity", "transaction_type", "item_id"}

C11_UpdateBodyAnnotationsOnly ==
  wire.kind = "updateTransaction" =>
    /\ DOMAIN wire.body \cap C11_FrozenFields = {}
    /\ DOMAIN wire.body \subseteq {"reason", "notes", "cost_impact", "reference_number"}

C11_FrozenStep == \A f \in C11_FrozenFields : srv'.tx[f] = srv.tx[f]

C11_TransactionEditsAnnotationsOnly ==
  [](C11_UpdateBodyAnnotationsOnly) /\ [][C11_FrozenStep]_vars

\* an edited transaction has reached the server: its cost_impact is a value
\* no listed row had
C11_Witness ==
  /\ wire = None /\ srv.tx.cost_impact = 2 /\ txSuccess /\ ~editDialogOpen
  /\ selectedTransaction # [item_id |-> 0]


\* C12: recording a stock transaction sends no item write (only the POST to
\* /api/stock-transactions/ and reloads), and the stock of the stored item is
\* the same after every step of the Stock Transactions page.
C12_NoItemWrite == wire.kind \notin C9_ItemWriteKinds

C12_StockStep == srv'.item.stock = srv.item.stock

C12_CreateLeavesStock == [](C12_NoItemWrite) /\ [][C12_StockStep]_vars

\* a transaction was recorded and the list is being reloaded
C12_Witness ==
  /\ txSuccess /\ ~createDialogOpen /\ wire = None /\ stLoading /\ stLoads # << >>
  /\ srv.item.stock = 1

\* C13: every field entered in the add-product wizard reaches the create
\* request with the entered value (an empty optional text may be left out),
\* so that the item read back has exactly the entered fields.
C13_NumberFields == {"stock", "low_stock_threshold", "purchase_price", "sell_price"}

C13_EnteredReachesRequest ==
  wire.kind \in {"createProduct", "createFromQR"} =>
    \A f \in DOMAIN wire.entered :
      IF f \in C13_NumberFields
      THEN wire.body[f] = wire.entered[f]
      ELSE \/ wire.body[f] = wire.entered[f]
           \/ wire.entered[f] = << >> /\ wire.body[f] = UndefStr

\* C14: an item update is idempotent: once PUT /api/items/{id} with body D
\* has been applied, applying the same request again leaves the stored item
\* as it is.
C14_UpdateStep ==
  (wire.kind = "updateItem" /\ wire' = None) => ServerApply(srv', wire) = srv'

C15_LowByOwnThreshold(product) == product.stock <= product.low_stock_threshold

C15_LowStockReports ==
  /\ MpFormShown => (MpStockWarning(mpForm) <=> C15_LowByOwnThreshold(mpForm))
  /\ (page = "home" /\ ~homeLoading /\ homeProducts # 0) =>
       (CardStatusOf(srv.item) # "In Stock" <=> C15_LowByOwnThreshold(srv.item))
  /\ InLowStockItems(srv.item, LOW_STOCK_THRESHOLD) <=> C15_LowByOwnThreshold(srv.item)

\* C16: the probe of the export page turns backendStatus from 'checking'
\* into 'connected' when at least one of the two requests succeeded and into
\* 'disconnected' when both failed; while the status is not 'connected'
\* handleExport sends no export request and sets the error; a
\* 'disconnected' status never changes and no probe is started again.
C16_ProbeResult ==
  exEvent.origin = "probe" =>
    backendStatus = (IF exEvent.fulfilled >= 1 THEN "connected" ELSE "disconnected")

C16_NotConnected ==
  backendStatus # "connected" =>
    /\ \A i \in 1..Len(exPending) : exPending[i].origin # "export"
    /\ exEvent.origin = "export" => (exEvent.outcome = "refused" /\ exError)

C16_StatusStep ==
  /\ backendStatus' # backendStatus => (backendStatus = "checking" /\ exProbing)
  /\ backendStatus = "disconnected" => (backendStatus' = "disconnected" /\ ~exProbing')

C16_BackendStatus ==
  [](C16_ProbeResult /\ C16_NotConnected) /\ [][C16_StatusStep]_vars

\* handleExport was called while both probes had failed
C16_Witness ==
  /\ backendStatus = "disconnected" /\ exEvent.origin = "export"
  /\ exEvent.outcome = "refused" /\ exError /\ exPending = << >>

\* C17: an export that succeeds downloads exactly one file, named by the
\* prefix of its type, the current date as YYYY-MM-DD and .xlsx; the four
\* types have four different prefixes; an unsupported type or a failed export
\* request downloads nothing and sets the error; loading is false when
\* handleExport has ended.
C17_IsIsoDateOfToday(t) ==
  /\ Len(t) = 10 /\ t[5] = -1 /\ t[8] = -1
  /\ \A i \in {1, 2, 3, 4, 6, 7, 9, 10} : t[i] \in 0..9
  /\ t[1] * 1000 + t[2] * 100 + t[3] * 10 + t[4] = today.y
  /\ t[6] * 10 + t[7] = today.m
  /\ t[9] * 10 + t[10] = today.d

C17_ExportOutcome ==
  /\ \A a \in ExportTypes, b \in ExportTypes : a # b => PrefixOf(a) # PrefixOf(b)
  /\ exEvent.outcome = "ok" =>
       /\ Len(downloads) = exEvent.before + 1
       /\ downloads[Len(downloads)].ext = ".xlsx"
       /\ C17_IsIsoDateOfToday(downloads[Len(downloads)].date)
       /\ exEvent.origin = "export" =>
            downloads[Len(downloads)].prefix = PrefixOf(exEvent.type)
  /\ exEvent.outcome \in {"failed", "unsupported"} =>
       (Len(downloads) = exEvent.before /\ exError)
  /\ exEvent.origin = "export" => ~exLoading

\* the same statement for the calls of handleExport alone
C17_HandleExportOutcome == exEvent.origin = "export" => C17_ExportOutcome

\* C18: when the interceptor re-sends the original request after a
\* successful refresh, the Authorization header of the re-sent request is
\* the access token refreshAccessToken has just stored.
C18_ResendStep ==
  (/\ Len(calls') = Len(calls) - 1 /\ Len(calls') >= 1
   /\ calls'[Len(calls')].resends = calls[Len(calls')].resends + 1)
  => calls'[Len(calls')].auth = storage'.token

C18_ResendCarriesNewToken == [][C18_ResendStep]_vars

\* C19: when the add-product dialog was opened by the scan of an unknown QR
\* code (the info alert of that scan is still shown), the create request
\* sent by the submit is the QR one and qrCodeResult still holds the scanned
\* value, whatever the order of the scan processing, the close of the scanner
\* and the submit.
C19_SubmitStep ==
  (/\ qrAlert = "info" /\ isDialogOpen
   /\ wire = None /\ wire'.kind \in {"createProduct", "createFromQR"})
  => (wire'.kind = "createFromQR" /\ qrCodeResult = QRCode)

C19_ScannedItemCreatedFromQR == [][C19_SubmitStep]_vars

\* C20: in both item editors (the manage dialog of HomePage and the
\* ManageProduct page) a submit whose title or distributor is empty after
\* trimming, or whose stock is negative, sends no update request, sets the
\* error, leaves the displayed product data unchanged and leaves the editor
\* open; a failed update request sets the error and leaves the editor and
\* the displayed product data as they are.
C20_Invalid(title, distributer, stock) ==
  Trim(title) = << >> \/ Trim(distributer) = << >> \/ stock < 0

C20_HomePageStep ==
  /\ (HandleUpdateProduct /\ C20_Invalid(hmForm.name, hmForm.distributer, hmForm.stock))
       => /\ wire' = None /\ hmPending' = hmPending
          /\ updateError'
          /\ homeProducts' = homeProducts
          /\ manageDialogOpen' /\ hmForm' = hmForm
  /\ HmUpdateResponse(FALSE)
       => /\ updateError' /\ wire' = None
          /\ homeProducts' = homeProducts
          /\ manageDialogOpen' = manageDialogOpen /\ hmForm' = hmForm

C20_ManageProductStep ==
  /\ (MpHandleSave /\ C20_Invalid(mpForm.title, mpForm.distributer, mpForm.stock))
       => /\ wire' = None /\ mpPending' = mpPending
          /\ mpError'
          /\ mpProduct' = mpProduct
          /\ mpEditing' /\ mpForm' = mpForm
  /\ MpUpdateResponse(FALSE)
       => /\ mpError' /\ wire' = None
          /\ mpProduct' = mpProduct
          /\ mpEditing' = mpEditing /\ mpForm' = mpForm

C20_RejectedEditKeepsEditor == [][C20_HomePageStep /\ C20_ManageProductStep]_vars

\* "Update Product" was pressed with a negative stock: the dialog is open
\* with the error and nothing was sent
C20_Witness ==
  /\ page = "home" /\ manageDialogOpen /\ updateError /\ ~updateLoading
  /\ hmForm.stock < 0 /\ hmPending = "none" /\ wire = None
  /\ srv.item.stock = 1

\* C21: totalValue is the sum over the products of price x stock, the
\* price being sell_price when the item has one, else purchase_price when it
\* has one, else 0 (a price of 0 counts as none, as in the forms);
\* totalProducts is the number of products; getTopProductsByValue(limit)
\* returns min(limit, number of products) products of the list, in
\* non-increasing order of price x stock.
C21_HasPrice(n) == n # UndefNum /\ n # 0

C21_Value(product) ==
  product.stock * (CASE C21_HasPrice(product.sell_price) -> product.sell_price
                     [] ~C21_HasPrice(product.sell_price)
                        /\ C21_HasPrice(product.purchase_price) -> product.purchase_price
                     [] OTHER -> 0)

RECURSIVE C21_Sum(_, _)
C21_Sum(products, n) ==
  IF n = 0 THEN 0 ELSE C21_Value(products[n]) + C21_Sum(products, n - 1)

C21_Aggregates ==
  /\ agg.call = "getDashboardData" =>
       /\ agg.totalValue = C21_Sum(agg.products, Len(agg.products))
       /\ agg.totalProducts = Cardinality(DOMAIN agg.products)
  /\ agg.call = "getTopProductsByValue" =>
       /\ Len(agg.top) = (IF agg.limit < Len(agg.products) THEN agg.limit
                          ELSE Len(agg.products))
       /\ \A i \in DOMAIN agg.top, j \in DOMAIN agg.top :
            i < j => C21_Value(agg.top[i]) >= C21_Value(agg.top[j])
       /\ \A i \in DOMAIN agg.top : \E k \in DOMAIN agg.products :
            agg.top[i] = agg.products[k]

\* both calls were made on a list of two products whose order the sort
\* changes, one of them priced by its purchase_price
C21_Witness ==
  /\ agg.call = "getTopProductsByValue" /\ agg.limit = 1 /\ Len(agg.products) = 2
  /\ agg.products[1].sell_price = 0 /\ agg.products[1].purchase_price = 1
  /\ agg.products[1].stock = 1
  /\ agg.top = <<agg.products[2]>> /\ C21_Value(agg.products[2]) = 6
  /\ agg.totalValue = 7 /\ agg.totalProducts = 2

\* C22: whatever login, refreshAccessToken and logout calls were made, the
\* default Authorization header of apiClient is present exactly when an
\* access token is stored and then carries that token; right after logout
\* none of token, refreshToken, userId, userEmail and username is stored,
\* isAuthenticated() is false and getCurrentUser() is null.
C22_HeaderMatchesToken ==
  /\ (authHeader # 0) <=> (storage.token # 0)
  /\ authHeader # 0 => authHeader = storage.token

C22_LogoutStep ==
  (HandleLogout \/ (storage.refreshToken # 0 /\ storage'.refreshToken = 0))
  => /\ storage'.token = 0 /\ storage'.refreshToken = 0
     /\ ~storage'.userId /\ ~storage'.userEmail /\ ~storage'.username
     /\ ~isAuthenticated' /\ ~getCurrentUser'
     /\ authHeader' = 0

C22_HeaderAndLogout == []C22_HeaderMatchesToken /\ [][C22_LogoutStep]_vars

\* a session whose token was refreshed has been logged out
C22_Witness ==
  /\ completed.refreshResult = "ok" /\ completed.resends = 1
  /\ storage = LoggedOutStorage /\ authHeader = 0 /\ ~ctxUser

\* C23: HomePage, Profile, Dashboard, ManageProduct and StockTransactions
\* are rendered only when the auth check has finished and isAuth is true, on
\* every route that leads to one of them.
C23_PagesNeedAuth == Rendered \in AppPages => (~ctxLoading /\ isAuth)

\* C24: the quick export "Estoque Baixo" of the export page requests the
\* items export with lowStockOnly = true, whatever options.lowStockOnly was
\* before the click.
C24_QuickExportStep ==
  (ClickLowStock /\ Len(exPending') = Len(exPending) + 1)
  => exPending'[Len(exPending')] =
       [type |-> "items", origin |-> "export", lowStockOnly |-> TRUE]

C24_QuickExportIsLowStockOnly == [][C24_QuickExportStep]_vars

\* C25: the auto-close armed by a successful update closes only the dialog
\* of the product that was updated: when it fires while the edit dialog of
\* another product is open, that dialog stays open and keeps its form data.
C25_TimerStep ==
  (/\ hmTimers # << >> /\ hmTimers' = Tail(hmTimers)
   /\ Head(hmTimers) # 0
   /\ manageDialogOpen /\ selectedProductId # Head(hmTimers))
  => (manageDialogOpen' /\ hmForm' = hmForm /\ selectedProductId' = selectedProductId)

C25_TimerClosesOwnDialogOnly == [][C25_TimerStep]_vars

\* C26: one scanning session calls onScan at most once, and after a decode
\* onClose is called exactly once (never a second time).
C26_OnceEach == scanner.onScanCalls <= 1 /\ scanner.onCloseCalls <= 1

\* C27: in the Stock Transactions view, when a load for a changed type or
\* item filter has finished and nothing is loading any more, the current
\* page is within 1 .. max(1, totalPages), given that it was within range
\* for the rows shown before the filter changed.
C27_PageInRange ==
  stPage >= 1 /\ stPage <= (IF stTotalPages > 1 THEN stTotalPages ELSE 1)

C27_FilterLoadStep ==
  (/\ \E i \in 1..MaxFetches, total \in TotalCounts : StLoadEnd(i, TRUE, total)
   /\ stLoads' = << >>
   /\ stRows # NoRows /\ stRows.page = stPage /\ C27_PageInRange
   /\ (stRows'.type # stRows.type \/ stRows'.item # stRows.item)
   /\ stRows'.page = stPage)
  => C27_PageInRange'

C27_PageStaysInRange == [][C27_FilterLoadStep]_vars

\* C28: when an edit in which the user emptied the description of an item
\* that had one reaches the server, the update request carries the cleared
\* value and the stored item has an empty description afterwards.
C28_ClearedStep ==
  (/\ wire.kind = "updateItem" /\ wire' = None
   /\ srv.item.description # << >>
   /\ wire.entered.description = << >>)
  => (wire.body.description = << >> /\ srv'.item.description = << >>)

C28_ClearedFieldIsStoredEmpty == [][C28_ClearedStep]_vars

====
